---- MODULE Spec2Model ----
(***************************************************************************)
(* Model of the MRS classification engine of FuSaTool and of its source    *)
(* variants:                                                               *)
(*   "mrs"  : MRSParser              (mrs_parser.py)                        *)
(*   "v02"  : MRSParser              (mrs_parser_v02.py)                    *)
(*   "expl" : AdvancedRuleParser     (mrs_parser_explainable.py)            *)
(*   "v04"  : generate/select/validate/determine_type (mrs_parser_v04.py)   *)
(*   "kiwi" : generate/select/validate/determine_type (mrs_parser_kiwi.py)  *)
(*                                                                         *)
(* A requirement text is represented by the evidence the pattern tables    *)
(* find in it: the set of slots whose lexical pattern matches (lex) and    *)
(* the set of slots whose strong pattern matches (strong).  A candidate    *)
(* list is <<>> or the one-element list of the slot's matched span.        *)
(***************************************************************************)
EXTENDS Naturals, Sequences, FiniteSets

VARIABLES variant, raw_text, normalized_text, items, learned_terms, domain_terms, config, expectations, pc, text, slots, pre,
          mrs_type, type_rationale, missing_items, logs, llm, idx, first

vars == <<variant, raw_text, normalized_text, items, learned_terms, domain_terms, config, expectations, pc, text, slots, pre,
          mrs_type, type_rationale, missing_items, logs, llm, idx, first>>

(***************************************************************************)
(* Slot names, slot states, labels                                         *)
(***************************************************************************)

\* The eight slot keys of PATTERNS, in dictionary order.
SlotOrder ==
  <<"Why", "Anchor", "What", "HowType", "When", "Constraints",
    "Verification", "AcceptanceCriteria">>

Slots == {SlotOrder[i] : i \in 1..Len(SlotOrder)}

\* SlotState values that the engines assign (VAGUE is declared in
\* mrs_parser.py and mrs_parser_v02.py but never assigned).
States == {"ABSENT", "WEAK", "OK"}

\* The order ABSENT < WEAK < OK of the specification.
Rank(s) == CASE s = "ABSENT" -> 0 [] s = "WEAK" -> 1 [] s = "OK" -> 2

ACTIONABLE == "ActionableMissing"
PERMISSIBLE == "PermissibleMissing"
DEFERRED == "DeferredMissing"
LABEL_NONE == "None"

\* Values of SlotData.selected: None, the empty list, a selected span.
SelNone == "None"
SelEmpty == "[]"
SelSpan == "span"
\* A selection of the response that is a number: json.loads gives an int.
SelNumber == "5"

\* SlotData(): state ABSENT, no candidates, nothing selected.
SlotData(state, candidates, selected) ==
  [state |-> state, candidates |-> candidates, selected |-> selected]

\* What a classification returns: the fields of the result object.
Result(sl, type, rationale, findings) ==
  [slots |-> sl, mrs_type |-> type, type_rationale |-> rationale,
   missing_items |-> findings]

EmptySlot == SlotData("ABSENT", <<>>, SelNone)

NoSlots == [s \in Slots |-> EmptySlot]

\* No earlier classification of the text in hand.
NoResult == Result(NoSlots, "Unknown", <<>>, <<>>)

StateOf(sl) == [s \in Slots |-> sl[s].state]

(***************************************************************************)
(* Requirement texts, by the evidence the pattern tables find in them      *)
(***************************************************************************)

\* The most spans one keyword pattern matches in a text.
MaxSpans == 3

\* What tells the later spans of a slot apart.
Suffixes == <<"a", "b", "c", "d">>

\* The slots that have a Strong_ pattern in some variant.
StrongSlots == {"Constraints", "When", "Verification", "AcceptanceCriteria"}

\* lex: the slots whose keyword pattern matches; strong: the slots whose
\* strong pattern matches; twins: the slots whose keyword pattern matches
\* MaxSpans times, the later spans as long as one another.
Items == [lex : SUBSET Slots, strong : SUBSET StrongSlots, twins : {{}}]

NoText == [lex |-> {}, strong |-> {}, twins |-> {}]

\* The raw_text of an item: the key is missing, or its value is None, the
\* empty string, white space only, or a text with content.
Missing == "(missing)"

RawTexts == {Missing, "None", "", " ", "text"}

normalize_asGiven(raw) == raw

\* json_data.get('raw_text', '') followed by _normalize: "" for a text that
\* is missing, None or empty ("if not text") or that strip() empties.
normalize(raw) ==
  LET got == IF raw = Missing THEN "" ELSE raw
  IN IF got \in {"None", ""} THEN ""
     ELSE IF got = " " THEN "" ELSE got

\* What the patterns can find in the normalized text of an item: every
\* pattern needs at least one character.
TextsOf(raw) == IF normalize(raw) = "" THEN {NoText} ELSE Items

\* re.finditer(keyword_pat, text): the candidate list of a slot.
Matches(slot, item) ==
  IF slot \notin item.lex THEN <<>>
  ELSE IF slot \notin item.twins THEN <<slot>>
       ELSE <<slot>> \o [i \in 1..(MaxSpans - 1) |-> slot \o Suffixes[i]]

(***************************************************************************)
(* Configuration: the archetype decision table                             *)
(***************************************************************************)

TypeOrder ==
  <<"T6_VerificationCentric", "T5_ConstraintCentric", "T4_WhenCentric",
    "T3_HowTypeCentric", "T2_WhatCentric", "T1_WhyCentric">>

TypeNames == {TypeOrder[i] : i \in 1..Len(TypeOrder)}

Cond(slot) == [slot |-> slot, state_in |-> {"OK"}]

\* types: each entry's match criteria; only the key 'all' is present.
TypeDefs ==
  [t \in TypeNames |->
     CASE t = "T1_WhyCentric" -> [all |-> <<Cond("Why")>>]
       [] t = "T2_WhatCentric" -> [all |-> <<Cond("What"), Cond("Anchor")>>]
       [] t = "T3_HowTypeCentric" -> [all |-> <<Cond("HowType")>>]
       [] t = "T4_WhenCentric" -> [all |-> <<Cond("When")>>]
       [] t = "T5_ConstraintCentric" -> [all |-> <<Cond("Constraints")>>]
       [] t = "T6_VerificationCentric" ->
            [all |-> <<Cond("Verification"), Cond("AcceptanceCriteria")>>]]

(***************************************************************************)
(* Configuration: the expectation matrix                                   *)
(***************************************************************************)

Exp(slot, e) == [slot |-> slot, exp |-> e]

\* One matrix row, in key order Why, Anchor, What, HowType, When,
\* Constraints, Verification, AcceptanceCriteria.
Row(es) == [i \in 1..Len(SlotOrder) |-> Exp(SlotOrder[i], es[i])]

\* type_slot_expectations.matrix of DEFAULT_MRS_CONFIG.
DefaultMatrix ==
  [t \in TypeNames |->
     CASE t = "T1_WhyCentric" -> Row(<<"M", "R", "R", "O", "O", "O", "O", "O">>)
       [] t = "T2_WhatCentric" -> Row(<<"R", "M", "M", "R", "M", "R", "R", "O">>)
       [] t = "T3_HowTypeCentric" -> Row(<<"R", "M", "M", "M", "M", "R", "R", "O">>)
       [] t = "T4_WhenCentric" -> Row(<<"R", "M", "M", "R", "M", "R", "R", "O">>)
       [] t = "T5_ConstraintCentric" -> Row(<<"R", "M", "M", "R", "R", "M", "R", "O">>)
       [] t = "T6_VerificationCentric" -> Row(<<"R", "M", "M", "O", "R", "R", "M", "M">>)]

\* The matrix of the YAML embedded in load_data_and_run: a row for T5 only.
EmbeddedMatrix ==
  [t \in {"T5_ConstraintCentric"} |->
     Row(<<"R", "M", "M", "R", "R", "M", "R", "O">>)]

RECURSIVE DropSlot(_, _)
DropSlot(row, slot) ==
  IF row = <<>> THEN <<>>
  ELSE IF Head(row).slot = slot THEN DropSlot(Tail(row), slot)
       ELSE <<Head(row)>> \o DropSlot(Tail(row), slot)

\* A matrix as another YAML file gives it: the default one with the entry
\* of one slot set to e in every row, or left out of every row ("-").
WithEntry(m, slot, e) ==
  [t \in DOMAIN m |->
     IF e = "-" THEN DropSlot(m[t], slot)
     ELSE [i \in 1..Len(m[t]) |->
             IF m[t][i].slot = slot THEN Exp(slot, e) ELSE m[t][i]]]

\* The default matrix with a row for Unknown as well.
WithUnknownRow ==
  [t \in TypeNames \cup {"Unknown"} |->
     IF t = "Unknown" THEN Row(<<"R", "M", "M", "O", "O", "O", "O", "O">>)
     ELSE DefaultMatrix[t]]

Matrices ==
  {DefaultMatrix, EmbeddedMatrix, WithUnknownRow}
    \cup {WithEntry(DefaultMatrix, s, e) : s \in Slots, e \in {"M", "R", "O", "-"}}

\* The variants that have no expectation matrix.
NoMatrix == [t \in {} |-> <<>>]

(***************************************************************************)
(* Configuration: the loaded YAML document                                 *)
(***************************************************************************)

\* mrs_schema.mrs_only_types of DEFAULT_MRS_CONFIG.
TypeTable == [type_order |-> TypeOrder, types |-> TypeDefs]

\* The document yaml.safe_load gives for a well-formed configuration.
Config(tt, m) ==
  [mrs_schema |-> [mrs_only_types |-> tt,
                   type_slot_expectations |-> [matrix |-> m]]]

\* self.type_defs of MRSParser; config['mrs_schema']['mrs_only_types'] of
\* determine_mrs_type.
type_defs == config.mrs_schema.mrs_only_types

(***************************************************************************)
(* Slot detection of MRSParser                                             *)
(***************************************************************************)

\* The slots s for which the key "Strong_" + s is in PATTERNS of
\* mrs_parser.py ("Strong_AC" is not "Strong_AcceptanceCriteria").
StrongKeys_mrs == {"Constraints", "When", "Verification"}

\* MRSParser._determine_slot_state of mrs_parser.py.
determine_slot_state_mrs(slot_name, item) ==
  LET candidates == Matches(slot_name, item) IN
  IF candidates = <<>> THEN SlotData("ABSENT", <<>>, SelNone)
  ELSE IF slot_name \in StrongKeys_mrs
       THEN IF slot_name \in item.strong
            THEN SlotData("OK", candidates, SelNone)
            ELSE SlotData("WEAK", candidates, SelNone)
       ELSE SlotData("OK", candidates, SelNone)

\* The same keys in PATTERNS of mrs_parser_v02.py.
StrongKeys_v02 == {"Constraints", "When", "Verification"}

\* MRSParser._determine_slot_state of mrs_parser_v02.py.
determine_slot_state_v02(slot_name, item) ==
  LET candidates == Matches(slot_name, item) IN
  IF candidates = <<>> THEN SlotData("ABSENT", <<>>, SelNone)
  ELSE IF slot_name \in StrongKeys_v02 /\ slot_name \in item.strong
       THEN SlotData("OK", candidates, SelNone)
       ELSE IF slot_name \notin
                 {"Constraints", "When", "Verification", "AcceptanceCriteria"}
            THEN SlotData("OK", candidates, SelNone)
            ELSE SlotData("WEAK", candidates, SelNone)

(***************************************************************************)
(* Type determination                                                      *)
(***************************************************************************)

\* The loop over criteria['all'] with its break.
RECURSIVE AllMatch(_, _)
AllMatch(conds, st) ==
  IF conds = <<>> THEN TRUE
  ELSE IF st[Head(conds).slot] \notin Head(conds).state_in THEN FALSE
       ELSE AllMatch(Tail(conds), st)

\* The loop over criteria['any'] with its break.
RECURSIVE AnyMatch(_, _)
AnyMatch(conds, st) ==
  IF conds = <<>> THEN FALSE
  ELSE IF st[Head(conds).slot] \in Head(conds).state_in THEN TRUE
       ELSE AnyMatch(Tail(conds), st)

TypeMatches_mrs_firstCond(criteria, st) ==
  IF "all" \in DOMAIN criteria /\ criteria.all # <<>>
  THEN st[criteria.all[1].slot] \in criteria.all[1].state_in
  ELSE TRUE

\* The body of the loop over type_order in mrs_parser.py.
TypeMatches_mrs(criteria, st) ==
  LET match == IF "all" \in DOMAIN criteria THEN AllMatch(criteria.all, st)
               ELSE TRUE
  IN IF match /\ "any" \in DOMAIN criteria THEN AnyMatch(criteria.any, st)
     ELSE match

\* The loop run from the last entry of type_order to the first.
RECURSIVE determine_mrs_type_mrs_last(_, _, _)
determine_mrs_type_mrs_last(order, types, st) ==
  IF order = <<>> THEN "Unknown"
  ELSE LET t == order[Len(order)] IN
       IF TypeMatches_mrs(types[t], st) THEN t
       ELSE determine_mrs_type_mrs_last(SubSeq(order, 1, Len(order) - 1), types, st)

\* MRSParser._determine_mrs_type of mrs_parser.py.
RECURSIVE determine_mrs_type_mrs(_, _, _)
determine_mrs_type_mrs(order, types, st) ==
  IF order = <<>> THEN "Unknown"
  ELSE IF TypeMatches_mrs(types[Head(order)], st) THEN Head(order)
       ELSE determine_mrs_type_mrs(Tail(order), types, st)

\* MRSParser._determine_mrs_type of mrs_parser_v02.py.
RECURSIVE determine_mrs_type_v02(_, _, _)
determine_mrs_type_v02(order, types, st) ==
  IF order = <<>> THEN "Unknown"
  ELSE LET criteria == types[Head(order)]
           match == IF "all" \in DOMAIN criteria
                    THEN AllMatch(criteria.all, st) ELSE TRUE
       IN IF match THEN Head(order)
          ELSE determine_mrs_type_v02(Tail(order), types, st)

\* The loop over criteria['all'] reaches slots[cond['slot']] with a name
\* that is no key of slots, before a condition fails: KeyError.
RECURSIVE AllRaises(_, _)
AllRaises(conds, st) ==
  IF conds = <<>> THEN FALSE
  ELSE IF Head(conds).slot \notin DOMAIN st THEN TRUE
       ELSE IF st[Head(conds).slot] \notin Head(conds).state_in THEN FALSE
            ELSE AllRaises(Tail(conds), st)

\* The same for the loop over criteria['any'], before a condition holds.
RECURSIVE AnyRaises(_, _)
AnyRaises(conds, st) ==
  IF conds = <<>> THEN FALSE
  ELSE IF Head(conds).slot \notin DOMAIN st THEN TRUE
       ELSE IF st[Head(conds).slot] \in Head(conds).state_in THEN FALSE
            ELSE AnyRaises(Tail(conds), st)

\* One pass of the loop over type_order raises: types[t_name] or a slots[...]
\* lookup has no such key.
CriteriaRaise(td, t_name, st) ==
  \/ "types" \notin DOMAIN td
  \/ t_name \notin DOMAIN td.types
  \/ LET criteria == td.types[t_name] IN
     \/ "all" \in DOMAIN criteria /\ AllRaises(criteria.all, st)
     \/ /\ "any" \in DOMAIN criteria
        /\ ("all" \in DOMAIN criteria => AllMatch(criteria.all, st))
        /\ AnyRaises(criteria.any, st)

\* The loop over type_order raises before a type matches.
RECURSIVE OrderRaises(_, _, _)
OrderRaises(order, td, st) ==
  IF order = <<>> THEN FALSE
  ELSE IF CriteriaRaise(td, Head(order), st) THEN TRUE
       ELSE IF TypeMatches_mrs(td.types[Head(order)], st) THEN FALSE
            ELSE OrderRaises(Tail(order), td, st)

\* MRSParser._determine_mrs_type (mrs_parser.py, mrs_parser_v02.py) raises
\* KeyError: self.type_defs['type_order'] or a lookup inside the loop.
determine_mrs_type_raises(td, st) ==
  "type_order" \notin DOMAIN td \/ OrderRaises(td.type_order, td, st)

(***************************************************************************)
(* Missingness rule engine                                                 *)
(***************************************************************************)

Finding(slot, label) == [slot |-> slot, label |-> label]

\* The initial label of a finding, from the matrix entry.
BaseLabel(expectation) ==
  CASE expectation = "M" -> ACTIONABLE
    [] expectation = "R" -> DEFERRED
    [] expectation = "O" -> PERMISSIBLE
    [] OTHER -> LABEL_NONE

RECURSIVE StageS_notOK(_, _)
StageS_notOK(exp_map, sl) ==
  IF exp_map = <<>> THEN <<>>
  ELSE (IF sl[Head(exp_map).slot].state # "OK"
        THEN <<Finding(Head(exp_map).slot, BaseLabel(Head(exp_map).exp))>>
        ELSE <<>>) \o StageS_notOK(Tail(exp_map), sl)

\* Stage S: the loop over exp_map.items() that builds missing_report.
RECURSIVE StageS(_, _)
StageS(exp_map, sl) ==
  IF exp_map = <<>> THEN <<>>
  ELSE (IF sl[Head(exp_map).slot].state = "ABSENT"
        THEN <<Finding(Head(exp_map).slot, BaseLabel(Head(exp_map).exp))>>
        ELSE <<>>) \o StageS(Tail(exp_map), sl)

StageA_mrs_anyAnchor(report, sl) ==
  [i \in 1..Len(report) |->
     IF report[i].slot \in
          {"When", "Constraints", "Verification", "AcceptanceCriteria"}
     THEN Finding(report[i].slot, DEFERRED) ELSE report[i]]

\* Rule A-ANC0 of mrs_parser.py.
StageA_mrs(report, sl) ==
  IF sl["Anchor"].state \in {"WEAK", "VAGUE", "ABSENT"}
  THEN [i \in 1..Len(report) |->
          IF report[i].slot \in
               {"When", "Constraints", "Verification", "AcceptanceCriteria"}
          THEN Finding(report[i].slot, DEFERRED) ELSE report[i]]
  ELSE report

\* Rule A-WT1 of mrs_parser.py.
RuleWT1_mrs(report) ==
  [i \in 1..Len(report) |->
     IF report[i].slot = "What" THEN Finding("What", ACTIONABLE)
     ELSE report[i]]

\* Rule P-VV1 of mrs_parser.py.
StageP_mrs(report, sl) ==
  IF sl["Verification"].state = "ABSENT"
     /\ sl["Anchor"].state = "OK" /\ sl["What"].state = "OK"
     /\ sl["When"].state = "OK" /\ sl["Constraints"].state = "OK"
  THEN [i \in 1..Len(report) |->
          IF report[i].slot = "Verification"
          THEN Finding("Verification", PERMISSIBLE) ELSE report[i]]
  ELSE report

\* Stage S raises KeyError: the row of the type names a slot that is no key
\* of req.slots.
apply_missingness_rules_raises(type, sl, matrix) ==
  /\ type \in DOMAIN matrix
  /\ \E i \in DOMAIN matrix[type] : matrix[type][i].slot \notin DOMAIN sl

\* MRSParser._apply_missingness_rules of mrs_parser.py: the new
\* req.missing_items.
apply_missingness_rules_mrs(type, sl, matrix) ==
  IF type \notin DOMAIN matrix THEN <<>>
  ELSE StageP_mrs(RuleWT1_mrs(StageA_mrs(StageS(matrix[type], sl), sl)), sl)

\* The Anchor override of mrs_parser_v02.py.
StageA_v02(report, sl) ==
  IF sl["Anchor"].state # "OK"
  THEN [i \in 1..Len(report) |->
          IF report[i].slot \in {"When", "Constraints", "Verification"}
          THEN Finding(report[i].slot, DEFERRED) ELSE report[i]]
  ELSE report

\* The Permissible override of mrs_parser_v02.py.
StageP_v02(report, sl) ==
  IF sl["Verification"].state = "ABSENT"
     /\ sl["When"].state = "OK" /\ sl["Constraints"].state = "OK"
  THEN [i \in 1..Len(report) |->
          IF report[i].slot = "Verification"
          THEN Finding("Verification", PERMISSIBLE) ELSE report[i]]
  ELSE report

\* MRSParser._apply_missingness_rules of mrs_parser_v02.py.
apply_missingness_rules_v02(type, sl, matrix) ==
  IF type \notin DOMAIN matrix THEN <<>>
  ELSE StageP_v02(StageA_v02(StageS(matrix[type], sl), sl), sl)

(***************************************************************************)
(* AdvancedRuleParser (mrs_parser_explainable.py)                          *)
(***************************************************************************)

\* Stage 1: Lexical.  The parser keeps a state per slot and no candidates.
Stage1_Lexical(item) ==
  [s \in Slots |->
     IF s \in item.lex THEN SlotData("WEAK", <<>>, SelNone)
     ELSE SlotData("ABSENT", <<>>, SelNone)]

\* The slots s for which "Strong_" + s is a key of PATTERNS.
StrongKeys_expl ==
  {"Constraints", "When", "Verification", "AcceptanceCriteria", "Anchor"}

Stage2_Structural_everyWeak(sl, item) ==
  [s \in Slots |->
     IF s \in {"Constraints", "When", "Verification", "AcceptanceCriteria"}
     THEN IF sl[s].state = "WEAK" /\ s \in StrongKeys_expl /\ s \in item.strong
          THEN [sl[s] EXCEPT !.state = "OK"] ELSE sl[s]
     ELSE IF sl[s].state = "WEAK"
          THEN [sl[s] EXCEPT !.state = "OK"] ELSE sl[s]]

\* Stage 2: Structural.
Stage2_Structural(sl, item) ==
  [s \in Slots |->
     IF s \in {"Constraints", "When", "Verification", "AcceptanceCriteria"}
     THEN IF sl[s].state = "WEAK" /\ s \in StrongKeys_expl /\ s \in item.strong
          THEN [sl[s] EXCEPT !.state = "OK"] ELSE sl[s]
     ELSE IF s \in {"Anchor", "What"} /\ sl[s].state = "WEAK"
          THEN [sl[s] EXCEPT !.state = "OK"] ELSE sl[s]]

Stage3_RelationCorrection_swapped(sl) ==
  LET capA(s) == IF sl["Anchor"].state = "ABSENT" /\ sl[s].state = "WEAK"
                 THEN [sl[s] EXCEPT !.state = "OK"] ELSE sl[s]
      capW(s) == IF sl["What"].state = "ABSENT" /\ sl[s].state = "WEAK"
                 THEN [sl[s] EXCEPT !.state = "OK"] ELSE sl[s]
  IN [s \in Slots |->
        IF s \in {"When", "Constraints"} THEN capA(s)
        ELSE IF s = "HowType" THEN capW(s)
        ELSE sl[s]]

\* Stage 3: Relation Correction.
Stage3_RelationCorrection(sl) ==
  LET capA(s) == IF sl["Anchor"].state = "ABSENT" /\ sl[s].state = "OK"
                 THEN [sl[s] EXCEPT !.state = "WEAK"] ELSE sl[s]
      capW(s) == IF sl["What"].state = "ABSENT" /\ sl[s].state = "OK"
                 THEN [sl[s] EXCEPT !.state = "WEAK"] ELSE sl[s]
  IN [s \in Slots |->
        IF s \in {"When", "Constraints"} THEN capA(s)
        ELSE IF s = "HowType" THEN capW(s)
        ELSE sl[s]]

\* The reasons list of one type: slot=state for each condition that holds,
\* up to the first one that fails.
RECURSIVE Reasons(_, _)
Reasons(conds, st) ==
  IF conds = <<>> THEN <<>>
  ELSE IF st[Head(conds).slot] \notin Head(conds).state_in THEN <<>>
       ELSE <<<<Head(conds).slot, st[Head(conds).slot]>>>>
              \o Reasons(Tail(conds), st)

NoMatchNote == <<<<"No matching criteria found">>>>

determine_mrs_type_expl_leaky(order, types, st) ==
  LET conds(i) == IF "all" \in DOMAIN types[order[i]]
                  THEN types[order[i]].all ELSE <<>>
      hits == {i \in 1..Len(order) : AllMatch(conds(i), st)}
  IN IF hits = {} THEN <<"Unknown", NoMatchNote>>
     ELSE LET n == CHOOSE i \in hits : \A j \in hits : i <= j
              reasons[i \in 0..n] ==
                IF i = 0 THEN <<>> ELSE reasons[i - 1] \o Reasons(conds(i), st)
          IN <<order[n], reasons[n]>>

\* slots.get(slot_name, SlotState.ABSENT) for every name the conditions use.
SlotsGet(st, td) ==
  LET named == UNION {{td.types[t].all[i].slot : i \in DOMAIN td.types[t].all} :
                        t \in {u \in DOMAIN td.types : "all" \in DOMAIN td.types[u]}}
  IN [s \in DOMAIN st \cup named |-> IF s \in DOMAIN st THEN st[s] ELSE "ABSENT"]

\* The loop over type_order of determine_mrs_type raises before a type
\* matches: types[t_name] has no such key.
RECURSIVE OrderRaises_expl(_, _, _)
OrderRaises_expl(order, td, st) ==
  IF order = <<>> THEN FALSE
  ELSE IF "types" \notin DOMAIN td \/ Head(order) \notin DOMAIN td.types THEN TRUE
       ELSE LET criteria == td.types[Head(order)]
                conds == IF "all" \in DOMAIN criteria THEN criteria.all ELSE <<>>
            IN IF AllMatch(conds, SlotsGet(st, td)) THEN FALSE
               ELSE OrderRaises_expl(Tail(order), td, st)

\* determine_mrs_type of mrs_parser_explainable.py raises KeyError:
\* config['mrs_schema']['mrs_only_types'], type_defs['type_order'] or
\* type_defs['types'][t_name].
determine_mrs_type_raises_expl(cfg, st) ==
  \/ "mrs_schema" \notin DOMAIN cfg
  \/ "mrs_only_types" \notin DOMAIN cfg.mrs_schema
  \/ "type_order" \notin DOMAIN cfg.mrs_schema.mrs_only_types
  \/ OrderRaises_expl(cfg.mrs_schema.mrs_only_types.type_order,
                      cfg.mrs_schema.mrs_only_types, st)

\* determine_mrs_type of mrs_parser_explainable.py: (type name, rationale).
RECURSIVE determine_mrs_type_expl(_, _, _)
determine_mrs_type_expl(order, types, st) ==
  IF order = <<>> THEN <<"Unknown", NoMatchNote>>
  ELSE LET criteria == types[Head(order)]
           conds == IF "all" \in DOMAIN criteria THEN criteria.all ELSE <<>>
       IN IF AllMatch(conds, st) THEN <<Head(order), Reasons(conds, st)>>
          ELSE determine_mrs_type_expl(Tail(order), types, st)

(***************************************************************************)
(* The hybrid pipelines (mrs_parser_v04.py, mrs_parser_kiwi.py)            *)
(***************************************************************************)

\* A ParseResult in the making: the slots and the logs.
Res(sl, lg) == [slots |-> sl, logs |-> lg]

\* BASE_DOMAIN_TERMS of mrs_parser_kiwi.py: those of its entries that the
\* corpus texts use.
BASE_DOMAIN_TERMS == {"ECU", "Sensor", "System"}

generate_v04_promoting(item) ==
  [s \in Slots |->
     LET candidates == Matches(s, item) IN
     SlotData(IF candidates # <<>> THEN "OK" ELSE "ABSENT", candidates, SelNone)]

\* CandidateGenerator.generate of mrs_parser_v04.py.
generate_v04(item) ==
  [s \in Slots |->
     LET candidates == Matches(s, item) IN
     SlotData(IF candidates # <<>> THEN "WEAK" ELSE "ABSENT", candidates, SelNone)]

\* The slots KiwiCandidateGenerator.generate ever appends a candidate to.
KiwiCandidateSlots == {"Constraints", "What", "Anchor", "When", "Why"}

\* list(set(cands)): the distinct candidates, in the order of their first
\* occurrence.
RECURSIVE Distinct(_)
Distinct(cands) ==
  IF cands = <<>> THEN <<>>
  ELSE LET rest == Distinct(SubSeq(cands, 1, Len(cands) - 1))
           last == cands[Len(cands)]
       IN IF \E i \in DOMAIN rest : rest[i] = last THEN rest
          ELSE Append(rest, last)

\* Where x goes in a list sorted by descending key, behind the elements
\* whose key is at least its own: the sort is stable.
RECURSIVE InsertByKey(_, _, _, _)
InsertByKey(x, kx, sorted, keys) ==
  IF sorted = <<>> THEN <<x>>
  ELSE IF keys[1] >= kx
       THEN <<Head(sorted)>> \o InsertByKey(x, kx, Tail(sorted), Tail(keys))
       ELSE <<x>> \o sorted

\* sorted(xs, key=..., reverse=True), the key of xs[i] being keys[i].
RECURSIVE SortedReverse(_, _)
SortedReverse(xs, keys) ==
  IF xs = <<>> THEN <<>>
  ELSE LET n == Len(xs)
           front == SortedReverse(SubSeq(xs, 1, n - 1), SubSeq(keys, 1, n - 1))
           frontKeys == SortedReverse(SubSeq(keys, 1, n - 1), SubSeq(keys, 1, n - 1))
       IN InsertByKey(xs[n], keys[n], front, frontKeys)

\* The string hash seeds of a Python process, by the order in which a set
\* of strings iterates under them: every order can come out.
HashSeeds ==
  {h \in [1..MaxSpans -> 1..MaxSpans] : \A i, j \in 1..MaxSpans : h[i] = h[j] => i = j}

\* Iterating set(cands) in a process with seed h.
SetIteration(cands, h) ==
  LET d == Distinct(cands)
  IN SortedReverse(d, [i \in 1..Len(d) |-> h[i]])

\* KiwiCandidateGenerator.generate of mrs_parser_kiwi.py, in a process with
\* hash seed h.
generate_kiwi(item, h) ==
  [s \in Slots |->
     LET cands == IF s \in KiwiCandidateSlots THEN Matches(s, item) ELSE <<>>
         listed == SetIteration(cands, h)
         unique_cands == SortedReverse(listed, [i \in 1..Len(listed) |-> Len(listed[i])])
     IN SlotData(IF unique_cands # <<>> THEN "WEAK" ELSE "ABSENT",
                 unique_cands, SelNone)]

\* What generate can return for one item, over the hash seeds.
Generated_kiwi(item) == {generate_kiwi(item, h) : h \in HashSeeds}

\* The most slots one selector response names.
MaxMentioned == 2

\* What the selector call gives: a failure, or a JSON object that gives
\* some slots a span, some the none sentinel and some a value that is no
\* string and no list.
ResponsesUpTo(n) ==
  UNION {[m -> {"NONE", SelSpan, SelNumber}] :
           m \in {x \in SUBSET Slots : Cardinality(x) <= n}}

\* The outcome of the selector call: ok is FALSE when requests.post,
\* raise_for_status or json.loads raises, or the response is no JSON object.
Outcome(ok, llm_out) == [ok |-> ok, llm_out |-> llm_out]

LLM_FAILURE == Outcome(FALSE, <<>>)

\* The selector call of the item in hand, as select saw it: not made (no
\* candidates, or select not reached yet), or made with an outcome.
NoCall == [called |-> FALSE, ok |-> FALSE, llm_out |-> <<>>]

Call(out) == [called |-> TRUE, ok |-> out.ok, llm_out |-> out.llm_out]

\* Whether select makes the call: active_candidates is not empty.
MakesCall(sl) == \E s \in Slots : sl[s].candidates # <<>>

OutcomesUpTo(n) == {LLM_FAILURE} \cup {Outcome(TRUE, r) : r \in ResponsesUpTo(n)}

select_v04_keepsState(res, out) ==
  IF \A s \in Slots : res.slots[s].candidates = <<>>
  THEN Res(res.slots, Append(res.logs, <<"No candidates to verify with LLM.">>))
  ELSE IF ~out.ok
       THEN Res(res.slots, Append(res.logs, <<"LLM Error">>))
       ELSE Res([s \in Slots |->
                   IF s \in DOMAIN out.llm_out
                   THEN IF out.llm_out[s] # "NONE"
                        THEN SlotData("OK", res.slots[s].candidates, out.llm_out[s])
                        ELSE SlotData(res.slots[s].state, res.slots[s].candidates,
                                      SelNone)
                   ELSE res.slots[s]],
                Append(res.logs, <<"LLM Presence Verification Completed.">>))

\* LLMSelector.select of mrs_parser_v04.py.
select_v04(res, out) ==
  IF \A s \in Slots : res.slots[s].candidates = <<>>
  THEN Res(res.slots, Append(res.logs, <<"No candidates to verify with LLM.">>))
  ELSE IF ~out.ok
       THEN Res(res.slots, Append(res.logs, <<"LLM Error">>))
       ELSE Res([s \in Slots |->
                   IF s \in DOMAIN out.llm_out
                   THEN IF out.llm_out[s] # "NONE"
                        THEN SlotData("OK", res.slots[s].candidates, out.llm_out[s])
                        ELSE SlotData("ABSENT", res.slots[s].candidates, SelNone)
                   ELSE res.slots[s]],
                Append(res.logs, <<"LLM Presence Verification Completed.">>))

\* LLMSelector.select of mrs_parser_kiwi.py.
select_kiwi(res, out) ==
  IF \A s \in Slots : res.slots[s].candidates = <<>>
  THEN Res(res.slots, Append(res.logs, <<"No candidates to verify.">>))
  ELSE IF ~out.ok
       THEN Res(res.slots, Append(res.logs, <<"LLM Error">>))
       ELSE Res([s \in Slots |->
                   IF s \in DOMAIN out.llm_out
                   THEN IF out.llm_out[s] \notin {"NONE", SelNumber}
                        THEN SlotData("OK", res.slots[s].candidates, out.llm_out[s])
                        ELSE SlotData("ABSENT", res.slots[s].candidates, SelEmpty)
                   ELSE res.slots[s]],
                res.logs)

Rule_v04(sup, subs) == [superior |-> sup, subordinate |-> subs]

\* HIERARCHY_RELATIONS of mrs_parser_v04.py.
HIERARCHY_RELATIONS_v04 ==
  <<Rule_v04("Anchor", <<"What">>),
    Rule_v04("What", <<"When", "Constraints", "HowType">>),
    Rule_v04("Verification", <<"AcceptanceCriteria">>)>>

RECURSIVE PruneSubs_v04_notAbsent(_, _, _)
PruneSubs_v04_notAbsent(res, sup_name, sub_names) ==
  IF sub_names = <<>> THEN res
  ELSE LET sub_name == Head(sub_names)
           sub_slot == res.slots[sub_name]
           res1 == IF sub_slot.state # "ABSENT"
                   THEN Res([res.slots EXCEPT ![sub_name] =
                               SlotData("ABSENT", sub_slot.candidates, SelNone)],
                            Append(res.logs,
                                   <<"Pruned", sub_name, sub_slot.selected, sup_name>>))
                   ELSE res
       IN PruneSubs_v04_notAbsent(res1, sup_name, Tail(sub_names))

\* The loop over sub_names of one rule whose superior is ABSENT.
RECURSIVE PruneSubs_v04(_, _, _)
PruneSubs_v04(res, sup_name, sub_names) ==
  IF sub_names = <<>> THEN res
  ELSE LET sub_name == Head(sub_names)
           sub_slot == res.slots[sub_name]
           res1 == IF sub_slot.state = "OK"
                   THEN Res([res.slots EXCEPT ![sub_name] =
                               SlotData("ABSENT", sub_slot.candidates, SelNone)],
                            Append(res.logs,
                                   <<"Pruned", sub_name, sub_slot.selected, sup_name>>))
                   ELSE res
       IN PruneSubs_v04(res1, sup_name, Tail(sub_names))

\* HierarchyValidator.validate of mrs_parser_v04.py: the loop over the rules.
RECURSIVE validate_v04(_, _)
validate_v04(res, rules) ==
  IF rules = <<>> THEN res
  ELSE LET rule == Head(rules)
           res1 == IF res.slots[rule.superior].state = "ABSENT"
                   THEN PruneSubs_v04(res, rule.superior, rule.subordinate)
                   ELSE res
       IN validate_v04(res1, Tail(rules))

Rule_kiwi(l, r, rel) == [left |-> l, right |-> r, rel |-> rel]

\* HIERARCHY_RELATIONS of mrs_parser_kiwi.py.
HIERARCHY_RELATIONS_kiwi ==
  <<Rule_kiwi("Constraints", "When", "requires"),
    Rule_kiwi("When", "Constraints", "refines"),
    Rule_kiwi("When", "What", "triggers"),
    Rule_kiwi("Why", "What", "justifies"),
    Rule_kiwi("Constraints", "What", "qualifies"),
    Rule_kiwi("Constraints", "Verification", "verifiedBy"),
    Rule_kiwi("What", "HowType", "refines"),
    Rule_kiwi("What", "Verification", "verifiedBy"),
    Rule_kiwi("Verification", "AcceptanceCriteria", "acceptedBy"),
    Rule_kiwi("AcceptanceCriteria", "Verification", "requires"),
    Rule_kiwi("Anchor", "What", "performs")>>

\* HierarchyValidator.validate of mrs_parser_kiwi.py: the loop over the rules.
RECURSIVE validate_kiwi(_, _)
validate_kiwi(res, rules) ==
  IF rules = <<>> THEN res
  ELSE LET rule == Head(rules)
           right == res.slots[rule.right]
           res1 == IF right.state = "OK" /\ res.slots[rule.left].state = "ABSENT"
                   THEN Res([res.slots EXCEPT ![rule.right] =
                               SlotData("ABSENT", right.candidates, SelEmpty)],
                            Append(res.logs,
                                   <<"Pruned", rule.right, right.selected,
                                     rule.left, rule.rel>>))
                   ELSE res
       IN validate_kiwi(res1, Tail(rules))

\* determine_type of mrs_parser_v04.py and of mrs_parser_kiwi.py: the new
\* (mrs_type, type_rationale); both stay as they are when no type matches.
RECURSIVE determine_type(_, _, _, _)
determine_type(order, types, st, old) ==
  IF order = <<>> THEN old
  ELSE LET criteria == types[Head(order)]
           conds == IF "all" \in DOMAIN criteria THEN criteria.all ELSE <<>>
       IN IF AllMatch(conds, st) THEN <<Head(order), Reasons(conds, st)>>
          ELSE determine_type(Tail(order), types, st, old)

(***************************************************************************)
(* The state machine                                                       *)
(***************************************************************************)

Variants == {"mrs", "v02", "expl", "v04", "kiwi"}

\* The engine after construction, before an item is classified.
Init ==
  /\ variant \in Variants
  /\ expectations \in (IF variant \in {"mrs", "v02"} THEN Matrices ELSE {NoMatrix})
  /\ pc = "idle"
  /\ text = NoText
  /\ slots = NoSlots
  /\ pre = NoSlots
  /\ mrs_type = "Unknown"
  /\ type_rationale = <<>>
  /\ missing_items = <<>>
  /\ logs = <<>>
  /\ llm = NoCall
  /\ idx = 0
  /\ raw_text = Missing
  /\ normalized_text = ""
  /\ items = <<>>
  /\ learned_terms = <<>>
  /\ domain_terms = (IF variant = "kiwi" THEN BASE_DOMAIN_TERMS ELSE {})
  /\ first = NoResult
  /\ config = Config(TypeTable, expectations)

\* MRSParser.parse of mrs_parser.py on one item.
MRSParser_parse_mrs ==
  /\ variant = "mrs" /\ pc = "idle"
  /\ \E raw \in RawTexts : \E item \in TextsOf(raw) :
       /\ raw_text' = raw
       /\ normalized_text' = normalize(raw)
       /\ text' = item
       /\ LET sl == [s \in Slots |-> determine_slot_state_mrs(s, item)]
              type == determine_mrs_type_mrs(type_defs.type_order, type_defs.types,
                                             StateOf(sl))
          IN IF \/ determine_mrs_type_raises(type_defs, StateOf(sl))
                \/ apply_missingness_rules_raises(type, sl, expectations)
             THEN pc' = "raised" /\ UNCHANGED <<slots, mrs_type, missing_items>>
             ELSE /\ slots' = sl
                  /\ mrs_type' = type
                  /\ missing_items' = apply_missingness_rules_mrs(type, sl, expectations)
                  /\ pc' = "done"
  /\ UNCHANGED <<variant, items, learned_terms, domain_terms, config,
                 expectations, pre, type_rationale, logs, llm, idx, first>>

\* MRSParser.parse of mrs_parser_v02.py on one item.
MRSParser_parse_v02 ==
  /\ variant = "v02" /\ pc = "idle"
  /\ \E raw \in RawTexts : \E item \in TextsOf(raw) :
       /\ raw_text' = raw
       /\ normalized_text' = normalize(raw)
       /\ text' = item
       /\ LET sl == [s \in Slots |-> determine_slot_state_v02(s, item)]
              type == determine_mrs_type_v02(type_defs.type_order, type_defs.types,
                                             StateOf(sl))
          IN IF \/ determine_mrs_type_raises(type_defs, StateOf(sl))
                \/ apply_missingness_rules_raises(type, sl, expectations)
             THEN pc' = "raised" /\ UNCHANGED <<slots, mrs_type, missing_items>>
             ELSE /\ slots' = sl
                  /\ mrs_type' = type
                  /\ missing_items' = apply_missingness_rules_v02(type, sl, expectations)
                  /\ pc' = "done"
  /\ UNCHANGED <<variant, items, learned_terms, domain_terms, config,
                 expectations, pre, type_rationale, logs, llm, idx, first>>

\* The corpus loop takes the next item: a fresh result object.
NextItem ==
  /\ pc = "done"
  /\ pc' = "idle"
  /\ text' = NoText
  /\ slots' = NoSlots
  /\ pre' = NoSlots
  /\ mrs_type' = "Unknown"
  /\ type_rationale' = <<>>
  /\ missing_items' = <<>>
  /\ logs' = <<>>
  /\ llm' = NoCall
  /\ raw_text' = Missing
  /\ normalized_text' = ""
  /\ UNCHANGED <<variant, items, learned_terms, domain_terms, config,
                 expectations, idx, first>>

\* AdvancedRuleParser.parse, Stage 1, on one item.
Lexical_expl ==
  /\ variant = "expl" /\ pc = "idle"
  /\ \E raw \in RawTexts : \E item \in TextsOf(raw) :
       /\ raw_text' = raw
       /\ normalized_text' = normalize(raw)
       /\ text' = item
       /\ slots' = Stage1_Lexical(item)
  /\ pc' = "lexical"
  /\ UNCHANGED <<variant, items, learned_terms, domain_terms, config,
                 expectations, pre, mrs_type, type_rationale,
                 missing_items, logs, llm, idx, first>>

\* AdvancedRuleParser.parse, Stage 2.
Structural_expl ==
  /\ variant = "expl" /\ pc = "lexical"
  /\ slots' = Stage2_Structural(slots, text)
  /\ pc' = "structural"
  /\ UNCHANGED <<variant, raw_text, normalized_text, items, learned_terms,
                 domain_terms, config,
                 expectations, text, pre, mrs_type, type_rationale,
                 missing_items, logs, llm, idx, first>>

\* AdvancedRuleParser.parse, Stage 3.
RelationCorrection_expl ==
  /\ variant = "expl" /\ pc = "structural"
  /\ pre' = slots
  /\ slots' = Stage3_RelationCorrection(slots)
  /\ pc' = "corrected"
  /\ UNCHANGED <<variant, raw_text, normalized_text, items, learned_terms,
                 domain_terms, config,
                 expectations, text, mrs_type, type_rationale,
                 missing_items, logs, llm, idx, first>>

\* AdvancedRuleParser.parse: the call of determine_mrs_type and the return.
DetermineType_expl ==
  /\ variant = "expl" /\ pc = "corrected"
  /\ IF determine_mrs_type_raises_expl(config, StateOf(slots))
     THEN pc' = "raised" /\ UNCHANGED <<mrs_type, type_rationale>>
     ELSE LET r == determine_mrs_type_expl(type_defs.type_order, type_defs.types,
                                           SlotsGet(StateOf(slots), type_defs))
          IN mrs_type' = r[1] /\ type_rationale' = r[2] /\ pc' = "done"
  /\ UNCHANGED <<variant, raw_text, normalized_text, items, learned_terms,
                 domain_terms, config,
                 expectations, text, slots, pre, missing_items, logs, llm, idx, first>>

\* run_hierarchy_parser: generator.generate(item).
Generate_v04 ==
  /\ variant = "v04" /\ pc = "idle"
  /\ \E item \in Items : slots' = generate_v04(item)
  /\ pc' = "generated"
  /\ UNCHANGED <<variant, raw_text, normalized_text, items, learned_terms,
                 domain_terms, config,
                 expectations, text, pre, mrs_type, type_rationale,
                 missing_items, logs, llm, idx, first>>

\* run_hierarchy_parser: selector.select(res).
Select_v04 ==
  /\ variant = "v04" /\ pc = "generated"
  /\ \E out \in OutcomesUpTo(MaxMentioned) :
       LET r == select_v04(Res(slots, logs), out)
       IN /\ slots' = r.slots /\ logs' = r.logs
          /\ llm' = (IF MakesCall(slots) THEN Call(out) ELSE NoCall)
  /\ pre' = slots
  /\ pc' = "selected"
  /\ UNCHANGED <<variant, raw_text, normalized_text, items, learned_terms,
                 domain_terms, config,
                 expectations, text, mrs_type, type_rationale,
                 missing_items, idx, first>>

\* run_hierarchy_parser: validator.validate(res).
Validate_v04 ==
  /\ variant = "v04" /\ pc = "selected"
  /\ pre' = slots
  /\ LET r == validate_v04(Res(slots, logs), HIERARCHY_RELATIONS_v04)
     IN slots' = r.slots /\ logs' = r.logs
  /\ pc' = "validated"
  /\ UNCHANGED <<variant, raw_text, normalized_text, items, learned_terms,
                 domain_terms, config,
                 expectations, text, mrs_type, type_rationale,
                 missing_items, llm, idx, first>>

\* run_hierarchy_parser: determine_type(res, DEFAULT_MRS_CONFIG).
DetermineType_v04 ==
  /\ variant = "v04" /\ pc = "validated"
  /\ LET r == determine_type(TypeOrder, TypeDefs, StateOf(slots),
                             <<mrs_type, type_rationale>>)
     IN mrs_type' = r[1] /\ type_rationale' = r[2]
  /\ pc' = "done"
  /\ UNCHANGED <<variant, raw_text, normalized_text, items, learned_terms,
                 domain_terms, config,
                 expectations, text, slots, pre, missing_items, logs, llm, idx, first>>

\* run_kiwi_pipeline: generator.generate(item).
Generate_kiwi ==
  /\ variant = "kiwi" /\ pc = "idle"
  /\ \E item \in Items : \E g \in Generated_kiwi(item) : slots' = g
  /\ pc' = "generated"
  /\ UNCHANGED <<variant, raw_text, normalized_text, items, learned_terms,
                 domain_terms, config,
                 expectations, text, pre, mrs_type, type_rationale,
                 missing_items, logs, llm, idx, first>>

\* run_kiwi_pipeline: selector.select(res).
Select_kiwi ==
  /\ variant = "kiwi" /\ pc = "generated"
  /\ \E out \in OutcomesUpTo(MaxMentioned) :
       LET r == select_kiwi(Res(slots, logs), out)
       IN /\ slots' = r.slots /\ logs' = r.logs
          /\ llm' = (IF MakesCall(slots) THEN Call(out) ELSE NoCall)
  /\ pre' = slots
  /\ pc' = "selected"
  /\ UNCHANGED <<variant, raw_text, normalized_text, items, learned_terms,
                 domain_terms, config,
                 expectations, text, mrs_type, type_rationale,
                 missing_items, idx, first>>

\* run_kiwi_pipeline: validator.validate(res).
Validate_kiwi ==
  /\ variant = "kiwi" /\ pc = "selected"
  /\ pre' = slots
  /\ LET r == validate_kiwi(Res(slots, logs), HIERARCHY_RELATIONS_kiwi)
     IN slots' = r.slots /\ logs' = r.logs
  /\ pc' = "validated"
  /\ UNCHANGED <<variant, raw_text, normalized_text, items, learned_terms,
                 domain_terms, config,
                 expectations, text, mrs_type, type_rationale,
                 missing_items, llm, idx, first>>

\* run_kiwi_pipeline: determine_type(res, DEFAULT_MRS_CONFIG).
DetermineType_kiwi ==
  /\ variant = "kiwi" /\ pc = "validated"
  /\ LET r == determine_type(TypeOrder, TypeDefs, StateOf(slots),
                             <<mrs_type, type_rationale>>)
     IN mrs_type' = r[1] /\ type_rationale' = r[2]
  /\ pc' = "done"
  /\ UNCHANGED <<variant, raw_text, normalized_text, items, learned_terms,
                 domain_terms, config,
                 expectations, text, slots, pre, missing_items, logs, llm, idx, first>>

Next ==
  \/ MRSParser_parse_mrs
  \/ MRSParser_parse_v02
  \/ Lexical_expl
  \/ Structural_expl
  \/ RelationCorrection_expl
  \/ DetermineType_expl
  \/ Generate_v04
  \/ Select_v04
  \/ Validate_v04
  \/ DetermineType_v04
  \/ Generate_kiwi
  \/ Select_kiwi
  \/ Validate_kiwi
  \/ DetermineType_kiwi
  \/ NextItem

Spec == Init /\ [][Next]_vars

(***************************************************************************)
(* The relation-correction stage on every state vector that can enter it   *)
(***************************************************************************)

\* A text in which every lexical pattern matches.
FullItem == [lex |-> Slots, strong |-> {}, twins |-> {}]

\* Every outcome of the selector call.
AllOutcomes == OutcomesUpTo(Cardinality(Slots))

\* The states in which the stage starts: after Stage 2 of
\* AdvancedRuleParser.parse on any text, and after select on any response
\* to the candidates of FullItem.
InitStage ==
  /\ variant \in {"expl", "v04", "kiwi"}
  /\ idx = 0
  /\ raw_text = "text"
  /\ normalized_text = "text"
  /\ items = <<>>
  /\ learned_terms = <<>>
  /\ domain_terms = (IF variant = "kiwi" THEN BASE_DOMAIN_TERMS ELSE {})
  /\ first = NoResult
  /\ expectations = NoMatrix
  /\ config = Config(TypeTable, expectations)
  /\ pre = NoSlots
  /\ mrs_type = "Unknown"
  /\ type_rationale = <<>>
  /\ missing_items = <<>>
  /\ \/ /\ variant = "expl"
        /\ pc = "structural"
        /\ text \in Items
        /\ slots = Stage2_Structural(Stage1_Lexical(text), text)
        /\ logs = <<>>
        /\ llm = NoCall
     \/ /\ variant = "v04"
        /\ pc = "selected"
        /\ text = NoText
        /\ \E out \in AllOutcomes :
             LET r == select_v04(Res(generate_v04(FullItem), <<>>), out)
             IN slots = r.slots /\ logs = r.logs /\ llm = Call(out)
     \/ /\ variant = "kiwi"
        /\ pc = "selected"
        /\ text = NoText
        /\ \E g \in Generated_kiwi(FullItem), out \in AllOutcomes :
             LET r == select_kiwi(Res(g, <<>>), out)
             IN slots = r.slots /\ logs = r.logs /\ llm = Call(out)

NextStage ==
  \/ RelationCorrection_expl
  \/ Validate_v04
  \/ Validate_kiwi

SpecStage == InitStage /\ [][NextStage]_vars

(***************************************************************************)
(* The type determiner on every assignment of states to the slots          *)
(***************************************************************************)

\* A slots dictionary with the given states.
SlotsWith(st) ==
  [s \in Slots |->
     SlotData(st[s], IF st[s] = "ABSENT" THEN <<>> ELSE <<s>>, SelNone)]

\* MRSParser._determine_mrs_type (mrs_parser.py) called on a slots dictionary.
DetermineType_mrs ==
  /\ variant = "mrs" /\ pc = "slots"
  /\ mrs_type' = determine_mrs_type_mrs(type_defs.type_order, type_defs.types,
                                        StateOf(slots))
  /\ pc' = "typed"
  /\ UNCHANGED <<variant, raw_text, normalized_text, items, learned_terms,
                 domain_terms, config,
                 expectations, text, slots, pre, type_rationale,
                 missing_items, logs, llm, idx, first>>

\* MRSParser._determine_mrs_type (mrs_parser_v02.py) called on a slots
\* dictionary.
DetermineType_v02 ==
  /\ variant = "v02" /\ pc = "slots"
  /\ mrs_type' = determine_mrs_type_v02(type_defs.type_order, type_defs.types,
                                        StateOf(slots))
  /\ pc' = "typed"
  /\ UNCHANGED <<variant, raw_text, normalized_text, items, learned_terms,
                 domain_terms, config,
                 expectations, text, slots, pre, type_rationale,
                 missing_items, logs, llm, idx, first>>

\* The determiners are handed any state vector (ReferenceParser.parse builds
\* the vector of determine_mrs_type from the statuses of an ir_record).
InitType ==
  /\ variant \in {"mrs", "v02", "expl"}
  /\ expectations = NoMatrix
  /\ pc = (IF variant = "expl" THEN "corrected" ELSE "slots")
  /\ text = NoText
  /\ \E st \in [Slots -> States] : slots = SlotsWith(st)
  /\ pre = NoSlots
  /\ mrs_type = "Unknown"
  /\ type_rationale = <<>>
  /\ missing_items = <<>>
  /\ logs = <<>>
  /\ llm = NoCall
  /\ idx = 0
  /\ raw_text = Missing
  /\ normalized_text = ""
  /\ items = <<>>
  /\ learned_terms = <<>>
  /\ domain_terms = (IF variant = "kiwi" THEN BASE_DOMAIN_TERMS ELSE {})
  /\ first = NoResult
  /\ config = Config(TypeTable, expectations)

NextType ==
  \/ DetermineType_mrs
  \/ DetermineType_v02
  \/ DetermineType_expl

SpecType == InitType /\ [][NextType]_vars

(***************************************************************************)
(* Properties                                                              *)
(***************************************************************************)

\* Every condition of the conjunction of type t holds in the state vector st.
Satisfied(t, st) ==
  \A i \in 1..Len(TypeDefs[t].all) :
     st[TypeDefs[t].all[i].slot] \in TypeDefs[t].all[i].state_in

\* The type determiner has returned.
TypeDecided == pc \in {"typed", "done"}

\* C1: with type_order T6..T1 and the 'all' conjunctions, the determiners of
\* mrs_parser.py, mrs_parser_v02.py and mrs_parser_explainable.py return one
\* name: a type whose every condition holds while no earlier type of
\* type_order is fully satisfied, or Unknown when no type is satisfied.
C1_FirstSatisfiedType ==
  (TypeDecided /\ variant \in {"mrs", "v02", "expl"}) =>
    LET st == StateOf(slots) IN
    /\ mrs_type \in TypeNames \cup {"Unknown"}
    /\ \A i \in 1..Len(TypeOrder) :
         mrs_type = TypeOrder[i] =>
           /\ Satisfied(TypeOrder[i], st)
           /\ \A j \in 1..(i - 1) : ~Satisfied(TypeOrder[j], st)
    /\ mrs_type = "Unknown" => \A t \in TypeNames : ~Satisfied(t, st)

\* C1 witness: several types are fully satisfied and the determiner of
\* mrs_parser.py has returned the first of them.
C1_Witness ==
  /\ TypeDecided /\ variant = "mrs"
  /\ Satisfied("T5_ConstraintCentric", StateOf(slots))
  /\ Satisfied("T4_WhenCentric", StateOf(slots))
  /\ Satisfied("T1_WhyCentric", StateOf(slots))
  /\ ~Satisfied("T6_VerificationCentric", StateOf(slots))
  /\ mrs_type = "T5_ConstraintCentric"

(***************************************************************************)
(* The final result of a parse                                             *)
(***************************************************************************)

\* A final result of MRSParser.parse, in mrs_parser.py or mrs_parser_v02.py.
ParsedByMRSParser == pc = "done" /\ variant \in {"mrs", "v02"}

\* The subordinate is not OK when the superior is ABSENT.
Respects(sup, sub) ==
  slots[sup].state = "ABSENT" => slots[sub].state # "OK"

\* The row of the archetype in the expectation matrix; empty without one.
RowOfType ==
  IF mrs_type \in DOMAIN expectations THEN expectations[mrs_type] ELSE <<>>

SlotsOfRow == {RowOfType[i].slot : i \in DOMAIN RowOfType}

FindingSlots == {missing_items[i].slot : i \in DOMAIN missing_items}

\* The labels of the findings for one slot.
LabelsOf(slot) ==
  {missing_items[i].label :
     i \in {j \in DOMAIN missing_items : missing_items[j].slot = slot}}

\* C2: in every final result of MRSParser.parse (mrs_parser.py), of
\* AdvancedRuleParser.parse (explainable) and of the kiwi pipeline, for each
\* of the edges Anchor->What, What->When, What->Constraints and
\* What->HowType, a superior that is ABSENT has no subordinate that is OK.
C2_HierarchyInFinalResult ==
  (\/ pc = "done" /\ variant \in {"mrs", "expl", "kiwi"}
   \/ pc = "validated" /\ variant = "kiwi") =>
    /\ Respects("Anchor", "What")
    /\ Respects("What", "When")
    /\ Respects("What", "Constraints")
    /\ Respects("What", "HowType")

\* C3: in a result of MRSParser.parse (mrs, v02) the slots that have a
\* finding are exactly the slots that are ABSENT and have an entry in the
\* matrix row of the archetype; each has exactly one finding; a WEAK or OK
\* slot has none; and without a row there is no finding at all.
C3_FindingsAreAbsentSlotsOfRow ==
  ParsedByMRSParser =>
    /\ FindingSlots = {s \in SlotsOfRow : slots[s].state = "ABSENT"}
    /\ \A i, j \in DOMAIN missing_items :
         missing_items[i].slot = missing_items[j].slot => i = j
    /\ \A s \in Slots : slots[s].state \in {"WEAK", "OK"} => s \notin FindingSlots
    /\ mrs_type \notin DOMAIN expectations => missing_items = <<>>

\* A result with a finding, a WEAK slot of the row without one, and an
\* ABSENT slot outside the row without one.
C3_Witness ==
  /\ ParsedByMRSParser
  /\ missing_items # <<>>
  /\ \E s \in SlotsOfRow : slots[s].state = "WEAK" /\ s \notin FindingSlots
  /\ \E s \in Slots \ SlotsOfRow : slots[s].state = "ABSENT" /\ s \notin FindingSlots

\* C4: in a result of MRSParser.parse (mrs, v02) a finding for What is
\* always labelled ActionableMissing.
C4_WhatAlwaysActionable ==
  ParsedByMRSParser => LabelsOf("What") \subseteq {ACTIONABLE}

\* C5: in a result of MRSParser.parse (mrs, v02) in which Anchor is not OK,
\* every finding for When, Constraints, Verification or AcceptanceCriteria
\* is labelled DeferredMissing.
C5_AnchorNotOkDefers ==
  (ParsedByMRSParser /\ slots["Anchor"].state # "OK") =>
    \A s \in {"When", "Constraints", "Verification", "AcceptanceCriteria"} :
      LabelsOf(s) \subseteq {DEFERRED}

AllFourOK ==
  \A s \in {"Anchor", "What", "When", "Constraints"} : slots[s].state = "OK"

\* C6: in a result of MRSParser.parse (mrs, v02) with Verification ABSENT
\* and an entry for it in the row: the finding is PermissibleMissing when
\* Anchor, What, When and Constraints are all OK; and for a
\* T5_ConstraintCentric item whose Verification entry is R it is
\* PermissibleMissing only if all four are OK, and DeferredMissing otherwise.
C6_VerificationLabel ==
  (ParsedByMRSParser /\ slots["Verification"].state = "ABSENT"
     /\ "Verification" \in SlotsOfRow) =>
    /\ AllFourOK => LabelsOf("Verification") = {PERMISSIBLE}
    /\ (mrs_type = "T5_ConstraintCentric"
          /\ RowOfType[CHOOSE i \in DOMAIN RowOfType :
                         RowOfType[i].slot = "Verification"].exp = "R") =>
         /\ (PERMISSIBLE \in LabelsOf("Verification")) => AllFourOK
         /\ ~AllFourOK => LabelsOf("Verification") = {DEFERRED}

(***************************************************************************)
(* The relation-correction stage, from its input (pre) to its output       *)
(***************************************************************************)

\* The stage has run: slots is its output and pre its input.
StageDone == pc \in {"corrected", "validated"}

\* The stage applied to its own output.
StageAgain ==
  CASE variant = "expl" -> Res(Stage3_RelationCorrection(slots), logs)
    [] variant = "v04" -> validate_v04(Res(slots, logs), HIERARCHY_RELATIONS_v04)
    [] variant = "kiwi" -> validate_kiwi(Res(slots, logs), HIERARCHY_RELATIONS_kiwi)
    [] OTHER -> Res(slots, logs)

\* The superiors of a slot in the relations the variant's stage enforces.
SuperiorsOf(s) ==
  CASE variant = "expl" ->
         IF s \in {"When", "Constraints"} THEN {"Anchor"}
         ELSE IF s = "HowType" THEN {"What"} ELSE {}
    [] variant = "v04" ->
         {HIERARCHY_RELATIONS_v04[i].superior :
            i \in {j \in DOMAIN HIERARCHY_RELATIONS_v04 :
                     \E k \in DOMAIN HIERARCHY_RELATIONS_v04[j].subordinate :
                        HIERARCHY_RELATIONS_v04[j].subordinate[k] = s}}
    [] variant = "kiwi" ->
         {HIERARCHY_RELATIONS_kiwi[i].left :
            i \in {j \in DOMAIN HIERARCHY_RELATIONS_kiwi :
                     HIERARCHY_RELATIONS_kiwi[j].right = s}}
    [] OTHER -> {}

\* C7: the relation-correction stage (Stage 3 of AdvancedRuleParser.parse,
\* HierarchyValidator.validate of v04 and of kiwi) never raises the state
\* of a slot: every slot's state after it is at most its state before it.
C7_StageNeverRaises ==
  StageDone => \A s \in Slots : Rank(slots[s].state) <= Rank(pre[s].state)

\* Stage 3 has lowered one slot and left another OK slot as it was.
C7_Witness ==
  /\ StageDone /\ variant = "expl"
  /\ \E s \in Slots : Rank(slots[s].state) < Rank(pre[s].state)
  /\ \E s \in Slots : pre[s].state = "OK" /\ slots[s].state = "OK"

\* C8: the stage is idempotent: applied to its own output it changes
\* nothing, for Stage 3, for validate of v04 and for validate of kiwi (one
\* pass over its eleven relations in list order).
C8_StageIdempotent ==
  StageDone => StageAgain = Res(slots, logs)

C10_TwoHop ==
  (StageDone /\ pre["Anchor"].state = "ABSENT" /\ pre["Constraints"].state = "OK") =>
    /\ slots["What"].state # "OK"
    /\ slots["Constraints"].state # "OK"

(***************************************************************************)
(* Slot detection on every text                                            *)
(***************************************************************************)

\* MRSParser.parse of mrs_parser.py, the loop over PATTERNS.keys() that
\* fills req.slots from the normalized text.
DetermineSlots_mrs ==
  /\ variant = "mrs" /\ pc = "text"
  /\ slots' = [s \in Slots |-> determine_slot_state_mrs(s, text)]
  /\ pc' = "slots"
  /\ UNCHANGED <<variant, raw_text, normalized_text, items, learned_terms,
                 domain_terms, config,
                 expectations, text, pre, mrs_type, type_rationale,
                 missing_items, logs, llm, idx, first>>

\* The same loop of MRSParser.parse of mrs_parser_v02.py.
DetermineSlots_v02 ==
  /\ variant = "v02" /\ pc = "text"
  /\ slots' = [s \in Slots |-> determine_slot_state_v02(s, text)]
  /\ pc' = "slots"
  /\ UNCHANGED <<variant, raw_text, normalized_text, items, learned_terms,
                 domain_terms, config,
                 expectations, text, pre, mrs_type, type_rationale,
                 missing_items, logs, llm, idx, first>>

\* A parser with the text of one item in hand: MRSParser.parse after
\* _normalize, AdvancedRuleParser.parse before Stage 1.
InitSlots ==
  /\ variant \in {"mrs", "v02", "expl"}
  /\ expectations = (IF variant = "expl" THEN NoMatrix ELSE DefaultMatrix)
  /\ \/ variant \in {"mrs", "v02"} /\ pc = "text" /\ text \in Items
     \/ variant = "expl" /\ pc = "idle" /\ text = NoText
  /\ slots = NoSlots
  /\ pre = NoSlots
  /\ mrs_type = "Unknown"
  /\ type_rationale = <<>>
  /\ missing_items = <<>>
  /\ logs = <<>>
  /\ llm = NoCall
  /\ idx = 0
  /\ raw_text = (IF variant = "expl" THEN Missing ELSE "text")
  /\ normalized_text = (IF variant = "expl" THEN "" ELSE "text")
  /\ items = <<>>
  /\ learned_terms = <<>>
  /\ domain_terms = (IF variant = "kiwi" THEN BASE_DOMAIN_TERMS ELSE {})
  /\ first = NoResult
  /\ config = Config(TypeTable, expectations)

NextSlots ==
  \/ DetermineSlots_mrs
  \/ DetermineSlots_v02
  \/ Lexical_expl
  \/ Structural_expl

SpecSlots == InitSlots /\ [][NextSlots]_vars

\* Candidate generation and structural promotion have run on text.
SlotsDetermined ==
  \/ variant \in {"mrs", "v02"} /\ pc = "slots"
  \/ variant = "expl" /\ pc = "structural"

\* C11: after candidate generation and structural promotion, each of
\* Constraints, When, Verification and AcceptanceCriteria is OK exactly when
\* it has a lexical candidate and its strong pattern matches the text, WEAK
\* when it has a candidate but no strong match, ABSENT when it has no
\* candidate (mrs, v02, Stages 1-2 of AdvancedRuleParser.parse).
C11_StrongPromotion ==
  SlotsDetermined =>
    \A s \in {"Constraints", "When", "Verification", "AcceptanceCriteria"} :
      /\ slots[s].state = "OK" <=> (s \in text.lex /\ s \in text.strong)
      /\ slots[s].state = "WEAK" <=> (s \in text.lex /\ s \notin text.strong)
      /\ slots[s].state = "ABSENT" <=> s \notin text.lex

\* C12: after structural promotion and before relation correction, each of
\* Anchor, What, Why and HowType is OK when it has a lexical candidate and
\* ABSENT otherwise, never WEAK (mrs_parser.py, Stage 2 of
\* AdvancedRuleParser.parse).
C12_AutoOK ==
  (SlotsDetermined /\ variant \in {"mrs", "expl"}) =>
    \A s \in {"Anchor", "What", "Why", "HowType"} :
      slots[s].state = (IF s \in text.lex THEN "OK" ELSE "ABSENT")

(***************************************************************************)
(* The selector call, from the slots before it (pre) to the slots after it *)
(***************************************************************************)

\* LLMSelector.select has returned: slots is its output, pre its input and
\* llm the call it made.
Selected == pc = "selected" /\ variant \in {"v04", "kiwi"}

\* The response is a JSON object with a value that is no span and no
\* sentinel.
MalformedValue ==
  llm.ok /\ \E s \in DOMAIN llm.llm_out : llm.llm_out[s] = SelNumber

\* C13: LLMSelector.select (v04, kiwi) applies the response only to slots
\* that had a candidate before the call: whatever the response, a slot with
\* an empty candidate list is ABSENT and has no selection when select
\* returns.
C13_OnlySlotsWithCandidates ==
  Selected =>
    \A s \in Slots :
      pre[s].candidates = <<>> =>
        slots[s].state = "ABSENT" /\ slots[s].selected \in {SelNone, SelEmpty}

\* C14: when the selector call fails (it raises, or the response is no JSON
\* object or has not the expected shape), select returns with every slot's
\* state and selection as they were before the call and with one diagnostic
\* entry appended to the logs.
C14_FailureKeepsState ==
  (Selected /\ llm.called /\ (~llm.ok \/ MalformedValue)) =>
    /\ \A s \in Slots :
         slots[s].state = pre[s].state /\ slots[s].selected = pre[s].selected
    /\ logs = <<<<"LLM Error">>>>

\* C15: when the selector call succeeds and gives "NONE" for a slot that
\* had candidates, the slot is ABSENT after select (v04, kiwi), whatever it
\* was before.
C15_NoneGivesAbsent ==
  (Selected /\ llm.called /\ llm.ok) =>
    \A s \in DOMAIN llm.llm_out :
      (llm.llm_out[s] = "NONE" /\ pre[s].candidates # <<>>) =>
        slots[s].state = "ABSENT"

\* select of v04 got "NONE" for What, which had a candidate and was WEAK,
\* and a span for another slot.
C15_Witness ==
  /\ Selected /\ variant = "v04" /\ llm.called /\ llm.ok
  /\ "What" \in DOMAIN llm.llm_out /\ llm.llm_out["What"] = "NONE"
  /\ pre["What"] = SlotData("WEAK", <<"What">>, SelNone)
  /\ slots["What"] = SlotData("ABSENT", <<"What">>, SelNone)
  /\ \E s \in DOMAIN llm.llm_out : llm.llm_out[s] = SelSpan /\ slots[s].state = "OK"

(***************************************************************************)
(* The corpus loops of run_hierarchy_parser and run_ollama_comparison      *)
(***************************************************************************)

\* The number of items in the corpus.
MaxItems == 3

\* The texts of the corpus items.
LoopTexts ==
  {NoText, FullItem} \cup
    {[lex |-> l, strong |-> {}, twins |-> {}] :
       l \in {{"Anchor", "What"}, {"What", "Constraints"}, {"What", "When"},
              {"Why", "What"}}}

\* The outcomes of the selector call in the loop: a failure, or a response
\* about What.
LoopOutcomes ==
  {LLM_FAILURE} \cup
    {Outcome(TRUE, r) : r \in [{"What"} -> {"NONE", SelSpan, SelNumber}]}

\* What OllamaParser.parse returns: a result built from the response, or a
\* result whose mrs_type is "Error" or "ConnectionError".
OllamaResults == {"ok", "Error", "ConnectionError"}

\* One pass of the loop body of run_hierarchy_parser: generate, select,
\* validate, determine_type on the next item.  idx counts the items taken.
LoopBody_v04 ==
  /\ variant = "v04" /\ pc = "idle" /\ idx < MaxItems
  /\ \E item \in LoopTexts, out \in LoopOutcomes :
       LET g == Res(generate_v04(item), <<>>)
           s == select_v04(g, out)
           v == validate_v04(s, HIERARCHY_RELATIONS_v04)
           t == determine_type(TypeOrder, TypeDefs, StateOf(v.slots),
                               <<"Unknown", <<>>>>)
       IN /\ slots' = v.slots /\ logs' = v.logs /\ pre' = s.slots
          /\ mrs_type' = t[1] /\ type_rationale' = t[2]
          /\ llm' = (IF MakesCall(g.slots) THEN Call(out) ELSE NoCall)
  /\ idx' = idx + 1
  /\ pc' = "idle"
  /\ UNCHANGED <<variant, raw_text, normalized_text, items, learned_terms,
                 domain_terms, config,
                 expectations, text, missing_items, first>>

\* One pass of the loop body of run_ollama_comparison: rule_parser.parse,
\* llm_parser.parse, then continue on "Error" and break on
\* "ConnectionError".  The printed report and stats are left out.
LoopBody_v03 ==
  /\ variant = "v03" /\ pc = "idle" /\ idx < MaxItems
  /\ \E item \in LoopTexts, l_res \in OllamaResults :
       LET sl == Stage3_RelationCorrection(
                   Stage2_Structural(Stage1_Lexical(item), item))
       IN /\ slots' = sl
          /\ mrs_type' = determine_mrs_type_expl(type_defs.type_order,
                                                type_defs.types, StateOf(sl))[1]
          /\ llm' = Call(Outcome(l_res = "ok", <<>>))
          /\ pc' = (IF l_res = "ConnectionError" THEN "stopped" ELSE "idle")
  /\ idx' = idx + 1
  /\ UNCHANGED <<variant, raw_text, normalized_text, items, learned_terms,
                 domain_terms, config,
                 expectations, text, pre, type_rationale,
                 missing_items, logs, first>>

\* The for loop ends when items is exhausted.
LoopExhausted ==
  /\ pc = "idle" /\ idx = MaxItems
  /\ pc' = "finished"
  /\ UNCHANGED <<variant, raw_text, normalized_text, items, learned_terms,
                 domain_terms, config,
                 expectations, text, slots, pre, mrs_type,
                 type_rationale, missing_items, logs, llm, idx, first>>

\* The loop is about to take its first item.
InitLoop ==
  /\ variant \in {"v03", "v04"}
  /\ expectations = NoMatrix
  /\ pc = "idle"
  /\ text = NoText
  /\ slots = NoSlots
  /\ pre = NoSlots
  /\ mrs_type = "Unknown"
  /\ type_rationale = <<>>
  /\ missing_items = <<>>
  /\ logs = <<>>
  /\ llm = NoCall
  /\ idx = 0
  /\ raw_text = Missing
  /\ normalized_text = ""
  /\ items = <<>>
  /\ learned_terms = <<>>
  /\ domain_terms = (IF variant = "kiwi" THEN BASE_DOMAIN_TERMS ELSE {})
  /\ first = NoResult
  /\ config = Config(TypeTable, expectations)

NextLoop ==
  \/ LoopBody_v04
  \/ LoopBody_v03
  \/ LoopExhausted

\* The loop is a sequential program: it runs while it has a step to take.
SpecLoop ==
  /\ InitLoop /\ [][NextLoop]_vars
  /\ WF_vars(LoopBody_v04) /\ WF_vars(LoopBody_v03) /\ WF_vars(LoopExhausted)

\* C16: in the corpus loops of run_hierarchy_parser (v04) and
\* run_ollama_comparison (v03), a failure of the LLM call on one item never
\* stops the loop: every item of the corpus is eventually processed.
C16_EveryItemProcessed ==
  \A k \in 1..MaxItems : <>(idx >= k)

(***************************************************************************)
(* The same text classified twice under the same configuration             *)
(***************************************************************************)

\* Texts in which Why and When can match several times.
RepeatTexts ==
  {[lex |-> l, strong |-> st, twins |-> t] :
     l \in SUBSET {"Why", "When", "What", "Anchor"},
     st \in SUBSET {"When"},
     t \in SUBSET {"Why", "When"}}

\* MRSParser.parse of mrs_parser.py on the text in hand; a second call
\* keeps the result of the first in first.
Classify_mrs ==
  /\ variant = "mrs" /\ pc \in {"text", "once"}
  /\ LET sl == [s \in Slots |-> determine_slot_state_mrs(s, text)]
         type == determine_mrs_type_mrs(type_defs.type_order, type_defs.types,
                                        StateOf(sl))
     IN /\ slots' = sl
        /\ mrs_type' = type
        /\ missing_items' = apply_missingness_rules_mrs(type, sl, expectations)
  /\ first' = (IF pc = "once"
               THEN Result(slots, mrs_type, type_rationale, missing_items)
               ELSE first)
  /\ pc' = (IF pc = "text" THEN "once" ELSE "twice")
  /\ UNCHANGED <<variant, raw_text, normalized_text, items, learned_terms,
                 domain_terms, config,
                 expectations, text, pre, type_rationale, logs, llm, idx>>

\* KiwiCandidateGenerator.generate on the text in hand, each call in a
\* process of its own; a second call keeps the result of the first in first.
Classify_kiwi ==
  /\ variant = "kiwi" /\ pc \in {"text", "once"}
  /\ \E h \in HashSeeds : slots' = generate_kiwi(text, h)
  /\ first' = (IF pc = "once"
               THEN Result(slots, mrs_type, type_rationale, missing_items)
               ELSE first)
  /\ pc' = (IF pc = "text" THEN "once" ELSE "twice")
  /\ UNCHANGED <<variant, raw_text, normalized_text, items, learned_terms,
                 domain_terms, config,
                 expectations, text, pre, mrs_type, type_rationale,
                 missing_items, logs, llm, idx>>

InitRepeat ==
  /\ variant \in {"mrs", "kiwi"}
  /\ expectations \in (IF variant = "mrs" THEN {DefaultMatrix, EmbeddedMatrix}
                       ELSE {NoMatrix})
  /\ pc = "text"
  /\ text \in RepeatTexts
  /\ slots = NoSlots
  /\ pre = NoSlots
  /\ mrs_type = "Unknown"
  /\ type_rationale = <<>>
  /\ missing_items = <<>>
  /\ logs = <<>>
  /\ llm = NoCall
  /\ idx = 0
  /\ raw_text = "text"
  /\ normalized_text = "text"
  /\ items = <<>>
  /\ learned_terms = <<>>
  /\ domain_terms = (IF variant = "kiwi" THEN BASE_DOMAIN_TERMS ELSE {})
  /\ first = NoResult
  /\ config = Config(TypeTable, expectations)

NextRepeat ==
  \/ Classify_mrs
  \/ Classify_kiwi

SpecRepeat == InitRepeat /\ [][NextRepeat]_vars

\* C17: classifying the same raw_text again under the same configuration
\* gives the same result: for every slot the same state and the same
\* candidates in the same order, and the same archetype, rationale and
\* findings (MRSParser.parse of mrs_parser.py,
\* KiwiCandidateGenerator.generate).
C17_Deterministic ==
  pc = "twice" =>
    first = Result(slots, mrs_type, type_rationale, missing_items)

(***************************************************************************)
(* The archetype and its rationale in a final result                       *)
(***************************************************************************)

\* The conditions of a type's conjunction, in table order.
ConditionsOf(t) == TypeDefs[t].all

\* The result carries a note, apart from the rationale, that no criteria
\* were satisfied.
NoteRecorded ==
  \E i \in DOMAIN logs : logs[i] = <<"No matching criteria found">>

\* C18: when no archetype's conjunction is satisfied, the type determiner
\* (determine_mrs_type of explainable, determine_type of v04,
\* _determine_mrs_type of mrs) gives Unknown with an empty rationale and,
\* apart from the rationale, an explicit note that no criteria were
\* satisfied.
C18_UnknownEmptyRationaleAndNote ==
  (pc = "done" /\ variant \in {"mrs", "expl", "v04"}
     /\ \A t \in TypeNames : ~Satisfied(t, StateOf(slots))) =>
    /\ mrs_type = "Unknown"
    /\ type_rationale = <<>>
    /\ NoteRecorded

\* C19: when the type determiner (determine_mrs_type of explainable,
\* determine_type of v04) returns archetype T, the rationale lists one
\* slot=state pair for each condition of T's conjunction, in table order,
\* with the slot's current state, and no pair of an archetype that was
\* examined earlier and rejected.
C19_RationaleOfReturnedType ==
  (pc = "done" /\ variant \in {"expl", "v04"} /\ mrs_type \in TypeNames) =>
    type_rationale =
      [i \in 1..Len(ConditionsOf(mrs_type)) |->
         <<ConditionsOf(mrs_type)[i].slot,
           slots[ConditionsOf(mrs_type)[i].slot].state>>]

\* T2_WhatCentric returned although Verification, the first condition of
\* the rejected T6_VerificationCentric, is OK: the rationale has the two
\* pairs of T2 only.
C19_Witness ==
  /\ pc = "done" /\ variant = "expl"
  /\ mrs_type = "T2_WhatCentric"
  /\ slots["Verification"].state = "OK"
  /\ slots["AcceptanceCriteria"].state # "OK"
  /\ type_rationale = << <<"What", "OK">>, <<"Anchor", "OK">> >>

\* The Verification relaxation condition: Verification is ABSENT and
\* Anchor, What, When and Constraints are all OK.
RelaxationHolds == slots["Verification"].state = "ABSENT" /\ AllFourOK

\* C20: a finding to which no override applies (its slot is not What;
\* Anchor is OK or its slot is none of When, Constraints, Verification,
\* AcceptanceCriteria; the Verification relaxation condition does not hold)
\* has the label of its matrix entry: M ActionableMissing, R
\* DeferredMissing, O PermissibleMissing (mrs, v02).
C20_BaseLabel ==
  ParsedByMRSParser =>
    \A i \in DOMAIN missing_items :
      LET f == missing_items[i]
          e == RowOfType[CHOOSE k \in DOMAIN RowOfType :
                           RowOfType[k].slot = f.slot].exp
      IN (/\ f.slot # "What"
          /\ \/ slots["Anchor"].state = "OK"
             \/ f.slot \notin {"When", "Constraints", "Verification",
                               "AcceptanceCriteria"}
          /\ ~RelaxationHolds) =>
           /\ e = "M" => f.label = ACTIONABLE
           /\ e = "R" => f.label = DEFERRED
           /\ e = "O" => f.label = PERMISSIBLE

(***************************************************************************)
(* Construction of the engine from a configuration document                *)
(***************************************************************************)

\* The six-type table without the definition of one type.
TypesWithout(t) == [u \in TypeNames \ {t} |-> TypeDefs[u]]

\* The six-type table with one more condition in the conjunction of one type.
TypesWithCond(t, slot) ==
  [u \in TypeNames |->
     IF u = t THEN [all |-> Append(TypeDefs[u].all, Cond(slot))] ELSE TypeDefs[u]]

\* The default matrix with one more entry in the row of one type.
MatrixWithEntry(t, slot, e) ==
  [u \in TypeNames |->
     IF u = t THEN Append(DefaultMatrix[u], Exp(slot, e)) ELSE DefaultMatrix[u]]

\* Documents in which a key is missing or a name of type_order has no
\* definition under types.
MalformedDocuments ==
  {[version |-> "1.0"],
   [mrs_schema |-> [type_slot_expectations |-> [matrix |-> DefaultMatrix]]],
   Config([types |-> TypeDefs], DefaultMatrix),
   [mrs_schema |-> [mrs_only_types |-> TypeTable]],
   [mrs_schema |-> [mrs_only_types |-> TypeTable,
                    type_slot_expectations |-> [version |-> "1.0"]]]}
    \cup {Config([type_order |-> TypeOrder, types |-> TypesWithout(t)], DefaultMatrix) :
            t \in {"T6_VerificationCentric", "T4_WhenCentric", "T1_WhyCentric"}}

\* Documents in which a type criterion or a matrix row names a slot that is
\* not one of the eight.
UnknownSlotDocuments ==
  {Config([type_order |-> TypeOrder, types |-> TypesWithCond(t, "Actor")],
          DefaultMatrix) : t \in {"T3_HowTypeCentric", "T2_WhatCentric"}}
    \cup {Config(TypeTable, MatrixWithEntry(t, "Actor", "M")) :
            t \in {"T2_WhatCentric", "T1_WhyCentric"}}

\* What yaml.safe_load can give the constructor.
Documents ==
  {Config(TypeTable, DefaultMatrix)} \cup MalformedDocuments \cup UnknownSlotDocuments

\* The lookups of MRSParser.__init__ raise KeyError.
init_raises(doc) ==
  \/ "mrs_schema" \notin DOMAIN doc
  \/ "mrs_only_types" \notin DOMAIN doc.mrs_schema
  \/ "type_slot_expectations" \notin DOMAIN doc.mrs_schema
  \/ "matrix" \notin DOMAIN doc.mrs_schema.type_slot_expectations

\* MRSParser.__init__ of mrs_parser.py: the exception leaves the constructor.
MRSParser_init_mrs ==
  /\ variant = "mrs" /\ pc = "unbuilt"
  /\ IF init_raises(config)
     THEN pc' = "raised_init" /\ UNCHANGED expectations
     ELSE /\ expectations' = config.mrs_schema.type_slot_expectations.matrix
          /\ pc' = "idle"
  /\ UNCHANGED <<variant, raw_text, normalized_text, items, learned_terms,
                 domain_terms, config, text, slots, pre, mrs_type, type_rationale,
                 missing_items, logs, llm, idx, first>>

\* MRSParser.__init__ of mrs_parser_v02.py: on any exception the embedded
\* DEFAULT_MRS_CONFIG is loaded and a message printed.
MRSParser_init_v02 ==
  /\ variant = "v02" /\ pc = "unbuilt"
  /\ IF init_raises(config)
     THEN /\ config' = Config(TypeTable, DefaultMatrix)
          /\ expectations' = DefaultMatrix
          /\ logs' = Append(logs, <<"Config Error">>)
     ELSE /\ expectations' = config.mrs_schema.type_slot_expectations.matrix
          /\ UNCHANGED <<config, logs>>
  /\ pc' = "idle"
  /\ UNCHANGED <<variant, raw_text, normalized_text, items, learned_terms,
                 domain_terms, text, slots, pre, mrs_type, type_rationale,
                 missing_items, llm, idx, first>>

\* AdvancedRuleParser.__init__: self.config = config.
AdvancedRuleParser_init ==
  /\ variant = "expl" /\ pc = "unbuilt"
  /\ pc' = "idle"
  /\ UNCHANGED <<variant, raw_text, normalized_text, items, learned_terms,
                 domain_terms, config,
                 expectations, text, slots, pre, mrs_type,
                 type_rationale, missing_items, logs, llm, idx, first>>

\* A document has been loaded and the constructor is about to run.
InitConfig ==
  /\ variant \in {"mrs", "v02", "expl"}
  /\ config \in Documents
  /\ expectations = NoMatrix
  /\ pc = "unbuilt"
  /\ text = NoText
  /\ slots = NoSlots
  /\ pre = NoSlots
  /\ mrs_type = "Unknown"
  /\ type_rationale = <<>>
  /\ missing_items = <<>>
  /\ logs = <<>>
  /\ llm = NoCall
  /\ idx = 0
  /\ raw_text = Missing
  /\ normalized_text = ""
  /\ items = <<>>
  /\ learned_terms = <<>>
  /\ domain_terms = (IF variant = "kiwi" THEN BASE_DOMAIN_TERMS ELSE {})
  /\ first = NoResult

NextConfig ==
  \/ MRSParser_init_mrs
  \/ MRSParser_init_v02
  \/ AdvancedRuleParser_init
  \/ MRSParser_parse_mrs
  \/ MRSParser_parse_v02
  \/ Lexical_expl
  \/ Structural_expl
  \/ RelationCorrection_expl
  \/ DetermineType_expl

SpecConfig == InitConfig /\ [][NextConfig]_vars

\* The document the constructor was given is missing a key or a type
\* definition (the constructor of v02 prints "Config Error" when it is).
GivenMalformed ==
  \/ config \in MalformedDocuments
  \/ \E i \in DOMAIN logs : logs[i] = <<"Config Error">>

\* An exception has left the constructor or the classification.
Raised == pc \in {"raised_init", "raised"}

\* C21: with a configuration that is missing or malformed (no mrs_schema,
\* mrs_only_types or type_order key, a name of type_order without a
\* definition, no expectation matrix), constructing the engine and
\* classifying an item raise no exception and the item is classified Unknown
\* with no findings (MRSParser of mrs and v02, determine_mrs_type of
\* explainable).
C21_FailClosed ==
  GivenMalformed =>
    /\ ~Raised
    /\ pc = "done" => (mrs_type = "Unknown" /\ missing_items = <<>>)

\* A type criterion or a matrix row of the loaded document names a slot
\* outside the eight.
NamesUnknownSlot == config \in UnknownSlotDocuments

\* C22: a configuration in which a type criterion or a matrix row names a
\* slot outside the eight is rejected by the constructor (MRSParser.__init__
\* of mrs_parser.py, AdvancedRuleParser.__init__), before any item is
\* classified: the engine never gets past construction with it.
C22_RejectedAtLoad ==
  (NamesUnknownSlot /\ variant \in {"mrs", "expl"}) =>
    pc \in {"unbuilt", "raised_init"}

(***************************************************************************)
(* run_kiwi_pipeline: the vocabulary is learned, then the corpus is        *)
(* classified                                                              *)
(***************************************************************************)

\* A corpus item as DomainTermExtractor.extract and
\* KiwiCandidateGenerator.generate see it: explicit, the metadata terms
\* (component, ecu, controller, vehicle, vehicle_models); nouns, the forms of
\* the body tokens tagged NNG, NNP or SL that _is_valid_term accepts, in text
\* order; subject, the nouns followed by a particle; lex, the slots other
\* than Anchor for which the text has evidence.
CorpusItem(explicit, nouns, subject, lex) ==
  [explicit |-> explicit, nouns |-> nouns, subject |-> subject, lex |-> lex]

CorpusItems ==
  {CorpusItem(<<>>, <<"BMS">>, {}, {"What"}),
   CorpusItem(<<>>, <<"BMS", "Inverter">>, {"Inverter"}, {"What", "When"}),
   CorpusItem(<<"VCU">>, <<"VCU", "ECU">>, {}, {"Why"}),
   CorpusItem(<<>>, <<>>, {}, {})}

\* term_counter[term] += n: a Counter keeps its keys in insertion order.
Incr(counter, term, n) ==
  IF \E i \in DOMAIN counter : counter[i][1] = term
  THEN [i \in DOMAIN counter |->
          IF counter[i][1] = term THEN <<term, counter[i][2] + n>> ELSE counter[i]]
  ELSE Append(counter, <<term, n>>)

RECURSIVE IncrAll(_, _, _)
IncrAll(counter, terms, n) ==
  IF terms = <<>> THEN counter
  ELSE IncrAll(Incr(counter, Head(terms), n), Tail(terms), n)

\* The loop over items of DomainTermExtractor.extract.
RECURSIVE CountTerms(_, _)
CountTerms(its, counter) ==
  IF its = <<>> THEN counter
  ELSE CountTerms(Tail(its),
                  IncrAll(IncrAll(counter, Head(its).explicit, 10),
                          Head(its).nouns, 1))

extract_firstItem(its) ==
  LET counter == CountTerms(SubSeq(its, 1, 1), <<>>)
      AtLeastTwo(p) == p[2] >= 2
      extracted == SelectSeq(counter, AtLeastTwo)
  IN SortedReverse([i \in DOMAIN extracted |-> extracted[i][1]],
                   [i \in DOMAIN extracted |-> extracted[i][2]])

\* DomainTermExtractor.extract: the terms counted at least twice, the most
\* frequent first.
extract(its) ==
  LET counter == CountTerms(its, <<>>)
      AtLeastTwo(p) == p[2] >= 2
      extracted == SelectSeq(counter, AtLeastTwo)
  IN SortedReverse([i \in DOMAIN extracted |-> extracted[i][1]],
                   [i \in DOMAIN extracted |-> extracted[i][2]])

\* What the patterns and the Anchor rule of generate find in an item: a noun
\* is an Anchor candidate when it is in domain_terms or a particle follows.
Evidence(item, terms) ==
  [lex |-> item.lex \cup
             (IF \E i \in DOMAIN item.nouns :
                   item.nouns[i] \in terms \/ item.nouns[i] \in item.subject
              THEN {"Anchor"} ELSE {}),
   strong |-> {}, twins |-> {}]

\* run_kiwi_pipeline: "No data found."
NoData ==
  /\ variant = "kiwi" /\ pc = "loaded" /\ items = <<>>
  /\ pc' = "finished"
  /\ UNCHANGED <<variant, raw_text, normalized_text, items, learned_terms,
                 domain_terms, config,
                 expectations, text, slots, pre, mrs_type, type_rationale,
                 missing_items, logs, llm, idx, first>>

\* Step 1: learned_terms = extractor.extract(items).
Extract_kiwi ==
  /\ variant = "kiwi" /\ pc = "loaded" /\ items # <<>>
  /\ learned_terms' = extract(items)
  /\ pc' = "learned"
  /\ UNCHANGED <<variant, raw_text, normalized_text, items, domain_terms, config, expectations, text,
                 slots, pre, mrs_type, type_rationale, missing_items, logs,
                 llm, idx, first>>

\* Step 2: generator = KiwiCandidateGenerator(learned_terms).
KiwiCandidateGenerator_init ==
  /\ variant = "kiwi" /\ pc = "learned"
  /\ domain_terms' =
       BASE_DOMAIN_TERMS \cup {learned_terms[i] : i \in DOMAIN learned_terms}
  /\ pc' = "ready"
  /\ UNCHANGED <<variant, raw_text, normalized_text, items, learned_terms, config, expectations, text,
                 slots, pre, mrs_type, type_rationale, missing_items, logs,
                 llm, idx, first>>

\* Step 3, the loop takes its next item: res = generator.generate(item), a
\* fresh ParseResult.
Generate_pipeline ==
  /\ variant = "kiwi" /\ pc \in {"ready", "done"} /\ idx < Len(items)
  /\ idx' = idx + 1
  /\ text' = Evidence(items[idx + 1], domain_terms)
  /\ \E g \in Generated_kiwi(Evidence(items[idx + 1], domain_terms)) : slots' = g
  /\ pre' = NoSlots
  /\ mrs_type' = "Unknown"
  /\ type_rationale' = <<>>
  /\ logs' = <<>>
  /\ llm' = NoCall
  /\ pc' = "generated"
  /\ UNCHANGED <<variant, raw_text, normalized_text, items, learned_terms,
                 domain_terms, config,
                 expectations, missing_items, first>>

\* The loop ends when items is exhausted.
PipelineExhausted ==
  /\ variant = "kiwi" /\ pc \in {"ready", "done"} /\ idx = Len(items)
  /\ pc' = "finished"
  /\ UNCHANGED <<variant, raw_text, normalized_text, items, learned_terms,
                 domain_terms, config,
                 expectations, text, slots, pre, mrs_type, type_rationale,
                 missing_items, logs, llm, idx, first>>

\* The corpora: up to MaxItems items.
Corpora == UNION {[1..n -> CorpusItems] : n \in 0..MaxItems}

\* run_kiwi_pipeline after the data load.
InitPipeline ==
  /\ variant = "kiwi"
  /\ items \in Corpora
  /\ learned_terms = <<>>
  /\ domain_terms = {}
  /\ config = Config(TypeTable, NoMatrix)
  /\ expectations = NoMatrix
  /\ pc = "loaded"
  /\ text = NoText
  /\ slots = NoSlots
  /\ pre = NoSlots
  /\ mrs_type = "Unknown"
  /\ type_rationale = <<>>
  /\ missing_items = <<>>
  /\ logs = <<>>
  /\ llm = NoCall
  /\ idx = 0
  /\ raw_text = Missing
  /\ normalized_text = ""
  /\ first = NoResult

NextPipeline ==
  \/ NoData
  \/ Extract_kiwi
  \/ KiwiCandidateGenerator_init
  \/ Generate_pipeline
  \/ Select_kiwi
  \/ Validate_kiwi
  \/ DetermineType_kiwi
  \/ PipelineExhausted

SpecPipeline == InitPipeline /\ [][NextPipeline]_vars

\* How often the corpus names a term, by extract's weights: 10 for each
\* metadata mention, 1 for each body token.
Weight(term) ==
  LET Mentions(seq) == Cardinality({i \in DOMAIN seq : seq[i] = term})
      OfItem[k \in 0..Len(items)] ==
        IF k = 0 THEN 0
        ELSE OfItem[k - 1] + 10 * Mentions(items[k].explicit)
                           + Mentions(items[k].nouns)
  IN OfItem[Len(items)]

\* The vocabulary of the whole corpus.
CorpusVocabulary ==
  BASE_DOMAIN_TERMS \cup
    {t \in UNION {{items[k].nouns[i] : i \in DOMAIN items[k].nouns}
                    \cup {items[k].explicit[i] : i \in DOMAIN items[k].explicit} :
                  k \in DOMAIN items} : Weight(t) >= 2}

\* An item is being classified or has been.
Classifying == idx >= 1

\* A step taken once the generator is built leaves its domain_terms alone.
ClassificationKeepsTerms ==
  pc \in {"ready", "generated", "selected", "validated", "done"} =>
    domain_terms' = domain_terms

\* C23: in run_kiwi_pipeline the vocabulary is built over the whole corpus
\* before any item is classified (extract has returned over all items
\* before the first generate) and is frozen afterwards: no generate, select
\* or validate (nor determine_type) step changes the generator's
\* domain_terms.
C23_VocabularyBuiltThenFrozen ==
  /\ [](Classifying => domain_terms = CorpusVocabulary)
  /\ [][ClassificationKeepsTerms]_vars

\* The second item is being classified with a vocabulary that has a term
\* (BMS) whose second mention is in the third item, not classified yet.
C23_Witness ==
  /\ variant = "kiwi" /\ pc = "validated" /\ idx = 2 /\ Len(items) = 3
  /\ items[1].nouns = <<"BMS">> /\ items[2].nouns = <<>>
  /\ items[3].nouns = <<"BMS", "Inverter">>
  /\ "BMS" \in domain_terms /\ "Inverter" \notin domain_terms

(***************************************************************************)
(* Items without a text                                                    *)
(***************************************************************************)

\* C24: for an item whose raw_text is missing or empty, classification
\* (MRSParser.parse of mrs_parser.py, AdvancedRuleParser.parse) raises
\* nothing and gives an empty normalized text, all eight slots ABSENT with
\* no candidates, archetype Unknown, and no findings when the matrix has no
\* row for Unknown.
C24_EmptyText ==
  (variant \in {"mrs", "expl"} /\ raw_text \in {Missing, ""}
     /\ pc \in {"done", "raised"}) =>
    /\ pc = "done"
    /\ normalized_text = ""
    /\ \A s \in Slots : slots[s].state = "ABSENT" /\ slots[s].candidates = <<>>
    /\ mrs_type = "Unknown"
    /\ "Unknown" \notin DOMAIN expectations => missing_items = <<>>

\* MRSParser.parse of mrs_parser.py has returned for an item without the
\* raw_text key, under the default matrix.
C24_Witness ==
  /\ variant = "mrs" /\ pc = "done" /\ raw_text = Missing
  /\ expectations = DefaultMatrix
  /\ normalized_text = "" /\ mrs_type = "Unknown" /\ missing_items = <<>>

(***************************************************************************)
(* Scenario C                                                              *)
(***************************************************************************)

\* "To prevent collision, the system shall warn the driver.": the patterns
\* match "to prevent" (Why), "system" (Anchor), "shall" (What) and "warn"
\* (HowType), and nothing for the other slots.
ScenarioC ==
  [lex |-> {"Why", "Anchor", "What", "HowType"}, strong |-> {}, twins |-> {}]

\* C25: for the text of Scenario C, classification with the six-type table
\* (MRSParser.parse of mrs_parser_v02.py, AdvancedRuleParser.parse) gives
\* Why, Anchor and What OK, Constraints and When ABSENT, and archetype
\* T2_WhatCentric, with T3 to T6 all unmatched.
C25_ScenarioC ==
  (pc = "done" /\ variant \in {"v02", "expl"}
     /\ normalized_text # "" /\ text = ScenarioC) =>
    /\ slots["Why"].state = "OK"
    /\ slots["Anchor"].state = "OK"
    /\ slots["What"].state = "OK"
    /\ slots["Constraints"].state = "ABSENT"
    /\ slots["When"].state = "ABSENT"
    /\ mrs_type = "T2_WhatCentric"
    /\ \A t \in {"T3_HowTypeCentric", "T4_WhenCentric", "T5_ConstraintCentric",
                 "T6_VerificationCentric"} : ~Satisfied(t, StateOf(slots))

(***************************************************************************)
(* The hierarchy after HierarchyValidator.validate of mrs_parser_v04.py    *)
(***************************************************************************)

\* C26: after HierarchyValidator.validate of mrs_parser_v04.py, for every
\* relation of HIERARCHY_RELATIONS (Anchor over What; What over When,
\* Constraints, HowType; Verification over AcceptanceCriteria): when the
\* superior is ABSENT every subordinate is ABSENT, whatever the selector
\* left, WEAK slots included.
C26_AbsentSuperiorAbsentSubordinates ==
  (variant = "v04" /\ pc = "validated") =>
    \A i \in DOMAIN HIERARCHY_RELATIONS_v04 :
      LET rule == HIERARCHY_RELATIONS_v04[i] IN
      slots[rule.superior].state = "ABSENT" =>
        \A k \in DOMAIN rule.subordinate :
          slots[rule.subordinate[k]].state = "ABSENT"

(***************************************************************************)
(* The three overrides of mrs_parser.py in every order                     *)
(***************************************************************************)

Overrides_mrs == {"A-ANC0", "A-WT1", "P-VV1"}

\* One override of MRSParser._apply_missingness_rules, by its rule name.
ApplyOverride_mrs(name, report, sl) ==
  CASE name = "A-ANC0" -> StageA_mrs(report, sl)
    [] name = "A-WT1" -> RuleWT1_mrs(report)
    [] name = "P-VV1" -> StageP_mrs(report, sl)

\* The findings an override assigns a label to: the items its loop selects
\* when its guard holds.
OverrideTargets_mrs(name, report, sl) ==
  CASE name = "A-ANC0" ->
         IF sl["Anchor"].state \in {"WEAK", "VAGUE", "ABSENT"}
         THEN {i \in DOMAIN report : report[i].slot \in
                 {"When", "Constraints", "Verification", "AcceptanceCriteria"}}
         ELSE {}
    [] name = "A-WT1" -> {i \in DOMAIN report : report[i].slot = "What"}
    [] name = "P-VV1" ->
         IF sl["Verification"].state = "ABSENT"
            /\ sl["Anchor"].state = "OK" /\ sl["What"].state = "OK"
            /\ sl["When"].state = "OK" /\ sl["Constraints"].state = "OK"
         THEN {i \in DOMAIN report : report[i].slot = "Verification"}
         ELSE {}

\* The orders in which three overrides can run.
OverrideOrders ==
  {o \in [1..3 -> Overrides_mrs] : \A i, j \in 1..3 : o[i] = o[j] => i = j}

OverridesInOrder(o, report, sl) ==
  ApplyOverride_mrs(o[3],
    ApplyOverride_mrs(o[2], ApplyOverride_mrs(o[1], report, sl), sl), sl)

\* parse of mrs_parser.py has returned with a type the matrix has a row for.
LabelledByMrs ==
  variant = "mrs" /\ pc = "done" /\ mrs_type \in DOMAIN expectations

\* C27: in _apply_missingness_rules of mrs_parser.py no two of the overrides
\* A-ANC0, A-WT1 and P-VV1 assign a label to the same finding, and running
\* them in any of the six orders over the Stage S report gives the labels
\* that parse returns in missing_items.
C27_OverridesCommute ==
  LabelledByMrs =>
    LET base == StageS(expectations[mrs_type], slots) IN
    /\ \A a, b \in Overrides_mrs :
         a # b => OverrideTargets_mrs(a, base, slots)
                    \cap OverrideTargets_mrs(b, base, slots) = {}
    /\ \A o \in OverrideOrders :
         OverridesInOrder(o, base, slots) = missing_items

\* Two overrides have fired on one report: A-ANC0 and A-WT1 each changed a
\* label that Stage S gave.
C27_Witness ==
  /\ LabelledByMrs
  /\ LET base == StageS(expectations[mrs_type], slots) IN
     /\ \E i \in DOMAIN base :
          /\ i \in OverrideTargets_mrs("A-ANC0", base, slots)
          /\ base[i].label # missing_items[i].label
     /\ \E i \in DOMAIN base :
          /\ i \in OverrideTargets_mrs("A-WT1", base, slots)
          /\ base[i].label # missing_items[i].label

(***************************************************************************)
(* Where an OK slot of mrs_parser_v04.py comes from                        *)
(***************************************************************************)

\* run_hierarchy_parser has taken the item in hand through select.
Selected_v04 == variant = "v04" /\ pc \in {"selected", "validated", "done"}

\* The selector call was made, it succeeded, and its response gives slot a
\* selection that is not the none sentinel.
SelectedBySelector(slot) ==
  /\ llm.called /\ llm.ok
  /\ slot \in DOMAIN llm.llm_out
  /\ llm.llm_out[slot] # "NONE"

\* The except branch of select was taken.
SelectorFailed == llm.called /\ ~llm.ok

\* select returned early: active_candidates was empty.
SelectorSkipped == ~llm.called

\* C28: in the pipeline of mrs_parser_v04.py (generate, select, validate,
\* determine_type) a slot is OK from select on only if the selector call
\* succeeded and returned a non-none selection for that slot; when the call
\* failed or was skipped for lack of candidates, no slot is OK and the
\* final mrs_type is Unknown.
C28_OkOnlyBySelection ==
  Selected_v04 =>
    /\ \A s \in Slots : slots[s].state = "OK" => SelectedBySelector(s)
    /\ (SelectorFailed \/ SelectorSkipped) =>
         /\ \A s \in Slots : slots[s].state # "OK"
         /\ pc = "done" => mrs_type = "Unknown"

\* A final result in which the selector's answer made one slot OK while
\* another slot it selected a span for was pruned by validate.
C28_Witness ==
  /\ variant = "v04" /\ pc = "done"
  /\ \E s \in Slots : slots[s].state = "OK"
  /\ \E s \in Slots : SelectedBySelector(s) /\ slots[s].state = "ABSENT"
  /\ mrs_type # "Unknown"

(***************************************************************************)
(* The types AdvancedRuleParser.parse can return                           *)
(***************************************************************************)

\* The engine runs AdvancedRuleParser.parse (mrs_parser_explainable.py,
\* mrs_parser_v03.py).
AdvancedRuleParser_runs == variant \in {"expl", "v03"}

\* C29: AdvancedRuleParser.parse never leaves Why or HowType in state OK,
\* so with the default six-type table it returns only
\* T6_VerificationCentric, T5_ConstraintCentric, T4_WhenCentric,
\* T2_WhatCentric or Unknown, and never T3_HowTypeCentric or T1_WhyCentric.
C29_NeverHowTypeNorWhy ==
  AdvancedRuleParser_runs =>
    /\ slots["Why"].state # "OK"
    /\ slots["HowType"].state # "OK"
    /\ mrs_type \in {"T6_VerificationCentric", "T5_ConstraintCentric",
                     "T4_WhenCentric", "T2_WhatCentric", "Unknown"}

\* parse has returned for a text that names a purpose and a mechanism and
\* matches none of T6, T5 and T4: Why and HowType are WEAK and the type is
\* the one behind T3 in type_order.
C29_Witness ==
  /\ variant = "expl" /\ pc = "done"
  /\ slots["Why"].state = "WEAK"
  /\ slots["HowType"].state = "WEAK"
  /\ mrs_type = "T2_WhatCentric"

(***************************************************************************)
(* The defining slots of the archetype that parse returns                  *)
(***************************************************************************)

\* The slots named in the match conjunction of type t.
DefiningSlots(t) ==
  LET criteria == type_defs.types[t]
  IN IF "all" \in DOMAIN criteria
     THEN {criteria.all[i].slot : i \in DOMAIN criteria.all}
     ELSE {}

\* parse of mrs_parser.py has returned an archetype other than Unknown.
ArchetypeByMrs == variant = "mrs" /\ pc = "done" /\ mrs_type # "Unknown"

\* C30: in every result of MRSParser.parse (mrs_parser.py) whose archetype
\* T is not Unknown, missing_items has no finding for a slot named in the
\* match conjunction of T, whatever the state vector and the matrix.
C30_NoFindingForDefiningSlot ==
  ArchetypeByMrs => DefiningSlots(mrs_type) \cap FindingSlots = {}

\* A result with findings whose matrix row lists every defining slot of the
\* archetype as Mandatory, the archetype having two of them.
C30_Witness ==
  /\ ArchetypeByMrs
  /\ missing_items # <<>>
  /\ Cardinality(DefiningSlots(mrs_type)) = 2
  /\ mrs_type \in DOMAIN expectations
  /\ \A s \in DefiningSlots(mrs_type) :
       \E i \in DOMAIN expectations[mrs_type] :
         expectations[mrs_type][i] = Exp(s, "M")

====
